---- MODULE Spec2Model ----
(***************************************************************************)
(* The Run Manager of python_script_api (src/src/python_script_api/        *)
(* runner.py): the in-memory run registry, its durable mirror (runs.db),   *)
(* the child processes, and the coroutines start, _watch, stop and         *)
(* _watch_orphaned_run, with server restarts (_load_runs).                 *)
(*                                                                         *)
(* Scheduling.  The server is one asyncio event loop.  A coroutine runs    *)
(* without interruption between two awaits that really suspend.  The       *)
(* registry lock is only ever held across code without an await, so        *)
(* `async with self._lock` never finds it taken and never suspends; the    *)
(* suspension points are create_subprocess_exec (start), proc.wait()       *)
(* (_watch), wait_for(proc.wait()) (stop), and asyncio.sleep (the orphan   *)
(* loops).  Each action below is one such uninterrupted segment, with the  *)
(* synchronous _save_run_sync calls it makes.                              *)
(*                                                                         *)
(* The environment.  A child is "alive" until it ends and "dead" after:    *)
(* asyncio reaps a child of this server and completes proc.wait(), init    *)
(* reaps an orphan; the short time a dead child is still a zombie, in      *)
(* which signalling it succeeds without effect, is not kept apart from its *)
(* last moment alive.  Pids are not reused.  create_subprocess_exec forks  *)
(* the child and resumes start() in one step.  proc.wait() of an asyncio   *)
(* subprocess completes with the return code and raises nothing that       *)
(* `except Exception` catches, so lines 286-293 of _watch are never run.   *)
(* os.killpg may be refused by the operating system (a child that changed  *)
(* its credentials): the "eperm" outcome.                                  *)
(*                                                                         *)
(* Time.  _utc_now() returns `clock`; every segment that reads the clock   *)
(* is followed by a later reading time, up to MaxClock.                    *)
(*                                                                         *)
(* Optional values (None in the source) are the empty set, a present       *)
(* value v is {v}.  `error` is the sequence of its "\n"-separated lines,   *)
(* None being the empty sequence.                                          *)
(*                                                                         *)
(* Records carry script, argv and the log paths.  A string is the sequence *)
(* of its characters, a path the sequence of its components; json.dumps /  *)
(* json.loads and str / Path are modelled by what they do to these.  The   *)
(* Run Manager never reads script or argv, so Spec and LiveSpec start one  *)
(* script; HttpSpec draws the script from Scripts.                         *)
(*                                                                         *)
(* The HTTP surface.  quant_script_api/app.py is the application under     *)
(* src/; POST /runs (start_run) is modelled over the Run Manager above,    *)
(* behind the auth gate of quant_script_api/auth.py.  Nothing in the       *)
(* handler suspends between its list_active_runs snapshot and the insertion*)
(* of the record by start(), so PostRuns is one segment up to the await of *)
(* create_subprocess_exec.                                                 *)
(*                                                                         *)
(* Specifications.  Spec and LiveSpec: the Run Manager alone.  ReloadSpec: *)
(* a state directory holding any stored record, then a restart.  AuthSpec: *)
(* one request through the auth gate.  HttpSpec: POST /runs requests       *)
(* against the Run Manager.  RunAllSpec and StopAllSpec: POST /runs/all    *)
(* and POST /runs/stop_all, each handler cut at the awaits that suspend,   *)
(* among POST /runs requests.  JwtSpec: tokens encoded, altered and        *)
(* verified by python_script_api/jwt.py.  AdminSpec: the admin secret      *)
(* exchanged for a token, and that token at the gate.  ResolveSpec:        *)
(* resolve_script over a small file system with symbolic links.  LogsSpec: *)
(* read_logs over small log files.  FilesSpec: start() with the two log    *)
(* files it opens, a file object left without a close() being finalized    *)
(* at once or later, as the interpreter chooses.  CorruptSpec: a state     *)
(* directory holding any stored record, a restart, then stop() calls and   *)
(* POST /runs requests.                                                    *)
(*                                                                         *)
(* Tokens.  Base64 is modelled at the level of its 6-bit characters, with  *)
(* padding, characters outside the alphabet and characters outside ASCII;  *)
(* HMAC-SHA256 by a digest of two bytes that differs for different keys    *)
(* and different signing inputs, collisions being left out.                *)
(***************************************************************************)
EXTENDS Integers, Sequences, FiniteSets, TLC

\* ---------------------------------------------------------------- bounds
MaxRuns == 2
MaxStops == 2
MaxRestarts == 1
MaxClock == 3
MaxHttpStops == 1

RunIds == 1 .. MaxRuns
StopIds == 1 .. MaxStops

\* ------------------------------------------------------------- constants
SIGTERM == 15
SIGKILL == 9

None == {}
Some(v) == {v}
Get(o) == CHOOSE v \in o : TRUE

ActiveStatuses == {"starting", "running", "stopping"}
TerminalStatuses == {"succeeded", "failed", "stopped", "terminated"}

\* Exit codes a script chooses itself, and asyncio's return code of a child
\* killed by signal s, which is -s.
OwnCodes == {0, 2}
KilledBy(s) == 0 - s

VARIABLES
    runs,      \* self._runs: run_id -> RunRecord (a dict: its domain grows)
    db,        \* the rows of table runs in runs.db: run_id -> row
    proc,      \* the operating system's view of each run's child process
    clock,     \* what _utc_now() returns
    epoch,     \* how many times the server has been restarted
    startPc,   \* where each start() call stands
    watchPc,   \* where each _watch task stands
    orphanPc,  \* where each _watch_orphaned_run task stands
    stops,     \* the stop() calls: where each stands and what it did
    settings,  \* the Settings the application was created with
    http       \* the HTTP surface: the last exchange, and which runs were
               \* created by POST /runs with duplicate=false

vars == <<runs, db, proc, clock, epoch, startPc, watchPc, orphanPc, stops,
          settings, http>>

\* ------------------------------------------------------------ helpers
Put(f, k, v) == [x \in (DOMAIN f) \cup {k} |-> IF x = k THEN v ELSE f[x]]

UtcNow == clock
Tick == IF clock < MaxClock THEN clock + 1 ELSE clock

PidOf(r) == r

\* ------------------------------------------------- strings, JSON, paths
\* A string is the sequence of its characters; a path is the sequence of its
\* components below the root directory.

\* sys.executable, and the resolved absolute path of script s as a string.
AbsoluteStr(s) == <<"/", s>>

\* start(), line 214: cmd = [sys.executable, "-u", str(absolute), *args].
Cmd(s, args) == <<<<"p", "y">>, <<"-", "u">>, AbsoluteStr(s)>> \o args

\* start(), lines 215-216: <logs_dir>/<run_id>.<stream>.log
LogPath(r, stream) == <<"logs", ToString(r) \o "." \o stream \o ".log">>

\* str(path) and Path(text), over the characters and separators of the text.
RECURSIVE PathStr(_)
PathStr(p) == IF p = <<>> THEN <<>> ELSE <<"/", Head(p)>> \o PathStr(Tail(p))

PathOf(text) == SelectSeq(text, LAMBDA x : x # "/")

\* json.dumps of a string: quoted, with quote and backslash escaped.
RECURSIVE JsonEscape(_)
JsonEscape(str) ==
    IF str = <<>> THEN <<>>
    ELSE (IF Head(str) \in {"\"", "\\"} THEN <<"\\", Head(str)>> ELSE <<Head(str)>>)
         \o JsonEscape(Tail(str))

\* Faulty variant: the string is quoted without escaping.
JsonStringRaw(str) == <<"\"">> \o str \o <<"\"">>

JsonString(str) == <<"\"">> \o JsonEscape(str) \o <<"\"">>

\* json.dumps of a list of strings: "[" item ", " item ... "]".
RECURSIVE JsonItems(_)
JsonItems(list) ==
    IF list = <<>> THEN <<>>
    ELSE IF Len(list) = 1 THEN JsonString(Head(list))
    ELSE JsonString(Head(list)) \o <<",", " ">> \o JsonItems(Tail(list))


\* json.loads of such a text.  JsonStringAt reads the string whose opening
\* quote is before position i: the value and the position after the closing
\* quote.
RECURSIVE JsonStringAt(_, _, _)
JsonStringAt(text, i, acc) ==
    IF i > Len(text) THEN [val |-> acc, next |-> i]
    ELSE IF text[i] = "\"" THEN [val |-> acc, next |-> i + 1]
    ELSE IF text[i] = "\\" /\ i < Len(text)
         THEN JsonStringAt(text, i + 2, Append(acc, text[i + 1]))
    ELSE JsonStringAt(text, i + 1, Append(acc, text[i]))

RECURSIVE JsonListAt(_, _, _)
JsonListAt(text, i, acc) ==
    IF i > Len(text) \/ text[i] = "]" THEN acc
    ELSE IF text[i] = "\""
         THEN LET str == JsonStringAt(text, i + 1, <<>>)
              IN JsonListAt(text, str.next, Append(acc, str.val))
    ELSE JsonListAt(text, i + 1, acc)

JsonLoads(text) == JsonListAt(text, 1, <<>>)

\* The row _save_run_sync writes for a record: every field but the child
\* handle and the open files, argv as JSON text and the paths as strings.
Row(rec) ==
    [script |-> rec.script, argv |-> <<"[">> \o JsonItems(rec.argv) \o <<"]">>,
     status |-> rec.status, pid |-> rec.pid, return_code |-> rec.return_code,
     created_at |-> rec.created_at, started_at |-> rec.started_at,
     finished_at |-> rec.finished_at,
     stdout_path |-> PathStr(rec.stdout_path),
     stderr_path |-> PathStr(rec.stderr_path), error |-> rec.error]

\* Faulty variant: the upsert is INSERT OR IGNORE, an existing row is kept.
SaveRunSyncInsertOnly(d, r, rec) ==
    IF r \in DOMAIN d THEN d ELSE Put(d, r, Row(rec))

\* _save_run_sync: INSERT OR REPLACE of the record's row.
SaveRunSync(d, r, rec) == Put(d, r, Row(rec))

\* _is_process_alive(pid): os.kill(pid, 0) succeeds.
IsProcessAlive(r) == proc[r].st = "alive"

\* Faulty variant: the record is inserted as running before the child exists.
NewRecordRunning(r, s, args, t) ==
    [script |-> s, argv |-> Cmd(s, args),
     status |-> "running", pid |-> None, return_code |-> None,
     created_at |-> Some(t), started_at |-> None, finished_at |-> None,
     stdout_path |-> LogPath(r, "stdout"), stderr_path |-> LogPath(r, "stderr"),
     error |-> <<>>, process |-> FALSE]

\* The record start() builds before any I/O, for run r of script s.
NewRecord(r, s, args, t) ==
    [script |-> s, argv |-> Cmd(s, args),
     status |-> "starting", pid |-> None, return_code |-> None,
     created_at |-> Some(t), started_at |-> None, finished_at |-> None,
     stdout_path |-> LogPath(r, "stdout"), stderr_path |-> LogPath(r, "stderr"),
     error |-> <<>>, process |-> FALSE]

\* start(), after create_subprocess_exec returned the child.
Spawned(rec, pid, t) ==
    [rec EXCEPT !.process = TRUE, !.pid = Some(pid), !.status = "running",
                !.started_at = Some(t)]

\* Faulty variant: the failed spawn is recorded without finished_at.
SpawnFailedUnstamped(rec, t) ==
    [rec EXCEPT !.status = "failed", !.error = <<"spawn failed">>]

\* start(), when create_subprocess_exec raised.
SpawnFailed(rec, t) ==
    [rec EXCEPT !.status = "failed", !.error = <<"spawn failed">>,
                !.finished_at = Some(t)]

\* Faulty variant: the watcher ignores that the run is being stopped.
WatchedStatusIgnoresStop(status, rc) ==
    IF rc = 0 THEN "succeeded" ELSE "failed"

\* Faulty variant: the watcher keeps stopped but treats stopping as an ordinary exit.
WatchedStatusOnlyStopped(status, rc) ==
    IF status = "stopped" THEN "stopped"
    ELSE IF rc = 0 THEN "succeeded"
    ELSE "failed"

\* _watch's terminal status rule.
WatchedStatus(status, rc) ==
    IF status \in {"stopping", "stopped"} THEN "stopped"
    ELSE IF rc = 0 THEN "succeeded"
    ELSE "failed"

\* Faulty variant: the watcher records the return code and leaves the status.
WatchedKeepsStatus(rec, rc, t) ==
    [rec EXCEPT !.return_code = Some(rc), !.finished_at = Some(t)]

\* _watch, after proc.wait() returned rc.
Watched(rec, rc, t) ==
    [rec EXCEPT !.return_code = Some(rc), !.finished_at = Some(t),
                !.status = WatchedStatus(rec.status, rc)]

\* ------------------------------------------------------------- Init
NoStop ==
    [pc |-> "idle", run |-> 0, epoch |-> 0, kind |-> "none",
     term |-> FALSE, kills |-> 0, sawExit |-> FALSE, ret |-> None]

\* config.py's defaults: JWT auth is off and no secret is configured.
DefaultSettings == [jwt_auth |-> FALSE, jwt_secret |-> FALSE]

\* No HTTP request has been handled.
NoExchange == [req |-> "none", code |-> "none", nodup |-> {}]

\* A RunManager constructed over an empty state directory.
ManagerInit ==
    /\ runs = <<>>
    /\ db = <<>>
    /\ proc = [r \in RunIds |-> [st |-> "none", code |-> None, sig |-> 0]]
    /\ epoch = 0
    /\ startPc = [r \in RunIds |-> "idle"]
    /\ watchPc = [r \in RunIds |-> "none"]
    /\ orphanPc = [r \in RunIds |-> "none"]
    /\ stops = [c \in StopIds |-> NoStop]

Init ==
    /\ ManagerInit
    /\ clock = 0
    /\ settings = DefaultSettings
    /\ http = NoExchange

\* ------------------------------------------------------------- start
\* start() up to its await of create_subprocess_exec: the record is inserted
\* and saved with status starting.  run_id is a fresh uuid4.
StartSegment(r, s, args) ==
    /\ r \notin DOMAIN runs
    /\ \A q \in RunIds : q < r => q \in DOMAIN runs
    /\ startPc[r] = "idle"
    /\ LET rec == NewRecord(r, s, args, UtcNow)
       IN /\ runs' = Put(runs, r, rec)
          /\ db' = SaveRunSync(db, r, rec)
    /\ clock' = Tick
    /\ startPc' = [startPc EXCEPT ![r] = "spawn"]
    /\ UNCHANGED <<proc, epoch, watchPc, orphanPc, stops>>

\* start() called by the embedding application.
StartBegin(r, s) ==
    /\ StartSegment(r, s, <<>>)
    /\ UNCHANGED <<settings, http>>

\* create_subprocess_exec returns: the child runs in its own session; the
\* record gets the handle, the pid and status running whatever its status
\* was; _watch is scheduled.
StartSpawned(r) ==
    /\ startPc[r] = "spawn"
    /\ LET rec == Spawned(runs[r], PidOf(r), UtcNow)
       IN /\ runs' = [runs EXCEPT ![r] = rec]
          /\ db' = SaveRunSync(db, r, rec)
    /\ proc' = [proc EXCEPT ![r] = [st |-> "alive", code |-> None, sig |-> 0]]
    /\ clock' = Tick
    /\ startPc' = [startPc EXCEPT ![r] = "done"]
    /\ watchPc' = [watchPc EXCEPT ![r] = "wait"]
    /\ UNCHANGED <<epoch, orphanPc, stops, settings, http>>

\* create_subprocess_exec raises.
StartSpawnFails(r) ==
    /\ startPc[r] = "spawn"
    /\ LET rec == SpawnFailed(runs[r], UtcNow)
       IN /\ runs' = [runs EXCEPT ![r] = rec]
          /\ db' = SaveRunSync(db, r, rec)
    /\ clock' = Tick
    /\ startPc' = [startPc EXCEPT ![r] = "done"]
    /\ UNCHANGED <<proc, epoch, watchPc, orphanPc, stops, settings, http>>

\* ------------------------------------------------------ the child process
\* The codes a child may end with: its own, or minus the signal that killed
\* it.  SIGTERM may be handled (examples/scripts/long_task.py ends with 0),
\* SIGKILL cannot.
\* The child ends.  A child of this server is reaped by the event loop, which
\* completes proc.wait(); an orphan is reaped by init.  Either way signalling
\* its pid fails from then on.
ChildExit(r, code) ==
    /\ proc[r].st = "alive"
    /\ code \in IF proc[r].sig = SIGKILL THEN {KilledBy(SIGKILL)}
                ELSE IF proc[r].sig = SIGTERM THEN OwnCodes \cup {KilledBy(SIGTERM)}
                ELSE OwnCodes
    /\ proc' = [proc EXCEPT ![r].st = "dead", ![r].code = Some(code)]
    /\ UNCHANGED <<runs, db, clock, epoch, startPc, watchPc, orphanPc, stops,
                   settings, http>>

\* ------------------------------------------------------------- _watch
\* proc.wait() returned rc: the terminal transition, saved.
WatchObserve(r) ==
    /\ watchPc[r] = "wait"
    /\ proc[r].st = "dead"
    /\ LET rec == Watched(runs[r], Get(proc[r].code), UtcNow)
       IN /\ runs' = [runs EXCEPT ![r] = rec]
          /\ db' = SaveRunSync(db, r, rec)
    /\ clock' = Tick
    /\ watchPc' = [watchPc EXCEPT ![r] = "done"]
    /\ UNCHANGED <<proc, epoch, startPc, orphanPc, stops, settings, http>>

\* ------------------------------------------------------------- stop
\* Faulty variant: stop() goes on for every status it does not know as ended.
StoppableUnlessEnded(status) ==
    status \notin {"succeeded", "failed", "stopped", "terminated", "stopping"}

\* Faulty variant: stop() goes on for every run that has not ended.
StoppableUnlessTerminal(status) ==
    status \notin {"succeeded", "failed", "stopped", "terminated"}

\* Faulty variant: stop() also goes on for a run that is already stopping.
StoppableAlsoStopping(status) == status \in {"running", "starting", "stopping"}

\* stop() goes on only for these statuses.
Stoppable(status) == status \in {"running", "starting"}

\* What os.killpg(pid, sig) does: it reaches a live process group ("ok"), is
\* refused by the operating system ("eperm", an OSError that is not
\* ProcessLookupError), or finds no such group ("esrch", ProcessLookupError).
KillpgOutcomes(r) == IF proc[r].st = "alive" THEN {"ok", "eperm"} ELSE {"esrch"}

\* The process after signal s reached it; SIGKILL is not undone by SIGTERM.
Deliver(p, s) == [p EXCEPT !.sig = IF @ = SIGKILL THEN SIGKILL ELSE s]

Signalled(r, s, outcome) ==
    IF outcome = "ok" THEN [proc EXCEPT ![r] = Deliver(proc[r], s)] ELSE proc

\* stop(), lines 357-359: the signal call raised another error.
SignalFailed(rec) ==
    [rec EXCEPT !.status = "failed", !.error = <<"signal failed">>]

\* Faulty variant: the grace-window exit records the code and leaves the status.
GraceExitedKeepsStatus(rec, rc, t) ==
    [rec EXCEPT !.return_code = Some(rc), !.finished_at = Some(t)]

\* stop(), lines 376-379: the child ended within the grace window.
GraceExited(rec, rc, t) ==
    [rec EXCEPT !.return_code = Some(rc), !.finished_at = Some(t),
                !.status = "stopped"]

\* stop(), lines 411-414: the adopted process is no longer alive.
OrphanStopped(rec, t) ==
    [rec EXCEPT !.status = "stopped", !.finished_at = Some(t)]

Returned(c, r, kind, rec) ==
    [stops[c] EXCEPT !.pc = "done", !.run = r, !.epoch = epoch, !.kind = kind,
                     !.ret = Some(rec)]

\* stop() from its call to its first suspension or its return.
StopCall(c, r, outcome) ==
    /\ stops[c].pc = "idle"
    /\ \A q \in StopIds : q < c => stops[q].pc # "idle"
    /\ UNCHANGED <<epoch, startPc, watchPc, orphanPc, settings, http>>
    /\ \/ \* no such record: return None
          /\ r \notin DOMAIN runs
          /\ stops' = [stops EXCEPT ![c] = [@ EXCEPT !.pc = "done", !.run = r,
                                             !.epoch = epoch, !.kind = "unknown"]]
          /\ UNCHANGED <<runs, db, proc, clock>>
       \/ \* not running or starting: return the record
          /\ r \in DOMAIN runs
          /\ ~Stoppable(runs[r].status)
          /\ stops' = [stops EXCEPT ![c] = Returned(c, r, "noop", runs[r])]
          /\ UNCHANGED <<runs, db, proc, clock>>
       \/ \* neither a handle nor a pid (start is still in spawn)
          /\ r \in DOMAIN runs
          /\ Stoppable(runs[r].status)
          /\ ~runs[r].process /\ runs[r].pid = None
          /\ LET rec == [runs[r] EXCEPT !.status = "stopping"]
             IN /\ runs' = [runs EXCEPT ![r] = rec]
                /\ db' = SaveRunSync(db, r, rec)
                /\ stops' = [stops EXCEPT ![c] = Returned(c, r, "nohandle", rec)]
          /\ UNCHANGED <<proc, clock>>
       \/ \* a child handle: SIGTERM to its process group
          /\ r \in DOMAIN runs
          /\ Stoppable(runs[r].status)
          /\ runs[r].process
          /\ outcome \in KillpgOutcomes(r)
          /\ LET stopping == [runs[r] EXCEPT !.status = "stopping"]
                 rec == IF outcome = "eperm" THEN SignalFailed(stopping) ELSE stopping
             IN /\ runs' = [runs EXCEPT ![r] = rec]
                /\ db' = SaveRunSync(SaveRunSync(db, r, stopping), r, rec)
                /\ stops' = [stops EXCEPT ![c] =
                      IF outcome = "ok"
                      THEN [@ EXCEPT !.pc = "grace", !.run = r, !.epoch = epoch,
                                     !.kind = "handle", !.term = TRUE]
                      ELSE Returned(c, r, "handle", rec)]
          /\ proc' = Signalled(r, SIGTERM, outcome)
          /\ UNCHANGED clock
       \/ \* a pid without a handle (adopted orphan): SIGTERM, errors ignored,
          \* then the first pass of the liveness loop
          /\ r \in DOMAIN runs
          /\ Stoppable(runs[r].status)
          /\ ~runs[r].process /\ runs[r].pid # None
          /\ outcome \in KillpgOutcomes(r)
          /\ proc' = Signalled(r, SIGTERM, outcome)
          /\ LET stopping == [runs[r] EXCEPT !.status = "stopping"]
                 rec == IF IsProcessAlive(r) THEN stopping
                        ELSE OrphanStopped(stopping, UtcNow)
             IN /\ runs' = [runs EXCEPT ![r] = rec]
                /\ db' = SaveRunSync(SaveRunSync(db, r, stopping), r, rec)
                /\ stops' = [stops EXCEPT ![c] =
                      IF IsProcessAlive(r)
                      THEN [@ EXCEPT !.pc = "poll", !.run = r, !.epoch = epoch,
                                     !.kind = "orphan", !.term = (outcome = "ok")]
                      ELSE [Returned(c, r, "orphan", rec) EXCEPT !.sawExit = TRUE]]
          /\ clock' = IF IsProcessAlive(r) THEN clock ELSE Tick

\* wait_for(proc.wait()) returned rc within the grace window.
StopGraceExit(c) ==
    /\ stops[c].pc = "grace"
    /\ LET r == stops[c].run
           rec == GraceExited(runs[r], Get(proc[r].code), UtcNow)
       IN /\ proc[r].st = "dead"
          /\ runs' = [runs EXCEPT ![r] = rec]
          /\ db' = SaveRunSync(db, r, rec)
          /\ stops' = [stops EXCEPT ![c] =
                [Returned(c, r, "handle", rec) EXCEPT !.sawExit = TRUE]]
    /\ clock' = Tick
    /\ UNCHANGED <<proc, epoch, startPc, watchPc, orphanPc, settings, http>>

\* wait_for timed out: SIGKILL to the process group, errors ignored; the
\* record is returned as it is.
StopGraceTimeout(c, outcome) ==
    /\ stops[c].pc = "grace"
    /\ LET r == stops[c].run
       IN /\ proc[r].st = "alive"
          /\ outcome \in KillpgOutcomes(r)
          /\ proc' = Signalled(r, SIGKILL, outcome)
          /\ stops' = [stops EXCEPT ![c] =
                [Returned(c, r, "handle", runs[r]) EXCEPT
                    !.kills = IF outcome = "ok" THEN @ + 1 ELSE @]]
    /\ UNCHANGED <<runs, db, clock, epoch, startPc, watchPc, orphanPc,
                   settings, http>>

\* A later pass of the orphan liveness loop that leaves it: the process is
\* gone, or the grace window is over and SIGKILL is sent (errors ignored).
\* The liveness test after the loop follows the SIGKILL at once; diesNow is
\* whether the process is already gone by then.
StopPoll(c, outcome, diesNow) ==
    /\ stops[c].pc = "poll"
    /\ LET r == stops[c].run
           timedOut == IsProcessAlive(r)
           gone == ~timedOut \/ (outcome = "ok" /\ diesNow)
           rec == IF gone THEN OrphanStopped(runs[r], UtcNow) ELSE runs[r]
       IN /\ outcome \in KillpgOutcomes(r)
          /\ ~timedOut => ~diesNow
          /\ proc' = IF ~timedOut THEN proc
                     ELSE IF outcome = "ok" /\ diesNow
                     THEN [proc EXCEPT ![r] = [st |-> "dead",
                              code |-> Some(KilledBy(SIGKILL)), sig |-> SIGKILL]]
                     ELSE Signalled(r, SIGKILL, outcome)
          /\ runs' = [runs EXCEPT ![r] = rec]
          /\ db' = IF gone THEN SaveRunSync(db, r, rec) ELSE db
          /\ stops' = [stops EXCEPT ![c] =
                [Returned(c, r, "orphan", rec) EXCEPT
                    !.sawExit = ~timedOut,
                    !.kills = IF timedOut /\ outcome = "ok" THEN @ + 1 ELSE @]]
          /\ clock' = IF gone THEN Tick ELSE clock
    /\ UNCHANGED <<epoch, startPc, watchPc, orphanPc, settings, http>>

\* ------------------------------------------- restart and reconciliation
\* Faulty variant: reconciliation stamps finished_at anew and replaces error.
LoadRowOverwrites(row, alive, t) ==
    LET rec == [script |-> row.script, argv |-> JsonLoads(row.argv),
                status |-> row.status, pid |-> row.pid,
                return_code |-> row.return_code, created_at |-> row.created_at,
                started_at |-> row.started_at, finished_at |-> row.finished_at,
                stdout_path |-> PathOf(row.stdout_path),
                stderr_path |-> PathOf(row.stderr_path),
                error |-> row.error, process |-> FALSE]
    IN IF rec.status \in ActiveStatuses /\ rec.pid # None
       THEN IF alive THEN rec
            ELSE [rec EXCEPT !.status = "terminated", !.finished_at = Some(t),
                     !.error = <<"Server restarted and process not found">>]
       ELSE IF rec.status \in ActiveStatuses
       THEN [rec EXCEPT !.status = "terminated", !.finished_at = Some(t),
                !.error = <<"Server restarted">>]
       ELSE rec

\* _load_runs, for one row: alive is the liveness probe of its pid.
LoadRow(row, alive, t) ==
    LET rec == [script |-> row.script, argv |-> JsonLoads(row.argv),
                status |-> row.status, pid |-> row.pid,
                return_code |-> row.return_code, created_at |-> row.created_at,
                started_at |-> row.started_at, finished_at |-> row.finished_at,
                stdout_path |-> PathOf(row.stdout_path),
                stderr_path |-> PathOf(row.stderr_path),
                error |-> row.error, process |-> FALSE]
        ended == IF rec.finished_at = None THEN Some(t) ELSE rec.finished_at
    IN IF rec.status \in ActiveStatuses /\ rec.pid # None
       THEN IF alive THEN rec
            ELSE [rec EXCEPT !.status = "terminated", !.finished_at = ended,
                     !.error = Append(@, "Server restarted and process not found")]
       ELSE IF rec.status \in ActiveStatuses
       THEN [rec EXCEPT !.status = "terminated", !.finished_at = ended,
                !.error = Append(@, "Server restarted")]
       ELSE rec

\* _load_runs schedules _watch_orphaned_run for this row.
Adopted(row, alive) ==
    row.status \in ActiveStatuses /\ row.pid # None /\ alive

\* The server process ends (every coroutine with it; the children, each in a
\* session of its own, live on) and a new RunManager is constructed over the
\* same state directory.
Restart ==
    /\ epoch < MaxRestarts
    /\ epoch' = epoch + 1
    /\ runs' = [r \in DOMAIN db |-> LoadRow(db[r], IsProcessAlive(r), UtcNow)]
    /\ db' = [r \in DOMAIN db |-> Row(runs'[r])]
    /\ clock' = IF \E r \in DOMAIN db : Row(runs'[r]) # db[r] THEN Tick ELSE clock
    /\ startPc' = [r \in RunIds |-> IF startPc[r] = "spawn" THEN "done" ELSE startPc[r]]
    /\ watchPc' = [r \in RunIds |-> "none"]
    /\ orphanPc' = [r \in RunIds |->
            IF r \in DOMAIN db /\ Adopted(db[r], IsProcessAlive(r))
            THEN "poll" ELSE "none"]
    /\ stops' = [c \in StopIds |->
            IF stops[c].pc \in {"grace", "poll"}
            THEN [stops[c] EXCEPT !.pc = "lost"] ELSE stops[c]]
    /\ UNCHANGED <<proc, settings, http>>

\* Faulty variant: the re-watcher only ends runs it finds running.
OrphanOverwritesOnlyRunning(status) == status = "running"

\* _watch_orphaned_run's status test.
OrphanOverwrites(status) == status \notin {"stopped", "succeeded", "failed"}

\* _watch_orphaned_run finds the process gone.
WatchOrphanedRun(r) ==
    /\ orphanPc[r] = "poll"
    /\ ~IsProcessAlive(r)
    /\ IF OrphanOverwrites(runs[r].status)
       THEN LET rec == [runs[r] EXCEPT !.status = "terminated",
                                       !.finished_at = Some(UtcNow)]
            IN /\ runs' = [runs EXCEPT ![r] = rec]
               /\ db' = SaveRunSync(db, r, rec)
               /\ clock' = Tick
       ELSE UNCHANGED <<runs, db, clock>>
    /\ orphanPc' = [orphanPc EXCEPT ![r] = "done"]
    /\ UNCHANGED <<proc, epoch, startPc, watchPc, stops, settings, http>>

\* ------------------------------------------------------ specifications
Outcomes == {"ok", "eperm", "esrch"}

\* The scripts under the scripts root, and the one the embedding application
\* starts: the Run Manager itself never reads script or argv.
Scripts == {"a", "b"}

Next ==
    \/ \E r \in RunIds : StartBegin(r, "a")
    \/ \E r \in RunIds : StartSpawned(r)
    \/ \E r \in RunIds : StartSpawnFails(r)
    \/ \E r \in RunIds : \E code \in OwnCodes \cup {KilledBy(SIGTERM), KilledBy(SIGKILL)} :
          ChildExit(r, code)
    \/ \E r \in RunIds : WatchObserve(r)
    \/ \E c \in StopIds : \E r \in RunIds : \E outcome \in Outcomes :
          StopCall(c, r, outcome)
    \/ \E c \in StopIds : StopGraceExit(c)
    \/ \E c \in StopIds : \E outcome \in Outcomes : StopGraceTimeout(c, outcome)
    \/ \E c \in StopIds : \E outcome \in Outcomes : \E diesNow \in BOOLEAN :
          StopPoll(c, outcome, diesNow)
    \/ Restart
    \/ \E r \in RunIds : WatchOrphanedRun(r)

Spec == Init /\ [][Next]_vars

\* The event loop runs every coroutine that can go on, the grace window of a
\* stop() call ends, and a process that received SIGKILL dies.  Nothing makes
\* a client call, the server restart, or a child end of its own accord.
Fairness ==
    /\ \A r \in RunIds : WF_vars(StartSpawned(r) \/ StartSpawnFails(r))
    /\ \A r \in RunIds : WF_vars(WatchObserve(r))
    /\ \A r \in RunIds : WF_vars(WatchOrphanedRun(r))
    /\ \A r \in RunIds : WF_vars(ChildExit(r, KilledBy(SIGKILL)))
    /\ \A c \in StopIds :
          WF_vars(StopGraceExit(c) \/ \E o \in Outcomes : StopGraceTimeout(c, o))
    /\ \A c \in StopIds :
          WF_vars(\E o \in Outcomes : \E d \in BOOLEAN : StopPoll(c, o, d))

LiveSpec == Spec /\ Fairness

\* ------------------------------------------------------- the auth gate
\* require_scopes(settings, required)(credentials).  A request carries no
\* Authorization header, one of another scheme (HTTPBearer yields None for
\* both), a Bearer header with nothing after it, or a bearer token.  A token
\* is described by whether decode_and_verify_hs256 accepts it under the
\* configured secret and by the value of its "scopes" claim.
\* Values of the "scopes" claim: absent, JSON null, a string, a list of
\* strings, a number, a non-empty object.
ScopesClaims ==
    {[kind |-> "missing"], [kind |-> "null"], [kind |-> "number", num |-> 7],
     [kind |-> "number", num |-> 0], [kind |-> "object"],
     [kind |-> "string", str |-> ""]}
    \cup {[kind |-> "string", str |-> n] : n \in {"*", "scripts:run", "scripts:read"}}
    \cup {[kind |-> "list", items |-> l] :
             l \in {<<>>, <<"*">>, <<"scripts:run">>, <<"scripts:read">>,
                    <<"scripts:read", "scripts:run">>, <<"scripts:read", "*">>}}

\* Python's truth value of a claim value.
Truthy(v) ==
    CASE v.kind \in {"missing", "null"} -> FALSE
      [] v.kind = "string" -> v.str # ""
      [] v.kind = "list" -> v.items # <<>>
      [] v.kind = "number" -> v.num # 0
      [] OTHER -> TRUE

\* Faulty variant: only a list grants scopes, a string claim grants none.
ScopesSetNoString(v) ==
    IF v.kind = "list" THEN {v.items[i] : i \in DOMAIN v.items} ELSE {}

\* auth.py lines 56-61: the set of scopes a verified token grants.
ScopesSet(v) ==
    LET listed == IF ~Truthy(v) THEN <<>>
                  ELSE IF v.kind = "string" THEN <<v.str>>
                  ELSE IF v.kind = "list" THEN v.items
                  ELSE <<>>
    IN {listed[i] : i \in DOMAIN listed}

\* auth.py lines 63-64: required scopes are satisfied.
ScopesSatisfied(required, granted) ==
    required = {} \/ "*" \in granted \/ required \subseteq granted

NoHeader == [header |-> "none"]
Bearer(valid, claim) ==
    [header |-> "bearer", token |-> "jwt", valid |-> valid, scopes |-> claim]

\* A bearer token on which decode_and_verify_hs256 raises an exception
\* that is no JWTError (jwt.py lines 61, 66, 72).
MalformedBearer == [header |-> "bearer", token |-> "malformed"]

\* Faulty variant: the secret is looked for before the header.
RequireScopesSecretFirst(cfg, required, cred) ==
    IF ~cfg.jwt_auth THEN "admit"
    ELSE IF ~cfg.jwt_secret THEN "500"
    ELSE IF cred.header # "bearer" \/ cred.token = "empty" THEN "401"
    ELSE IF cred.token = "malformed" THEN "500"
    ELSE IF ~cred.valid THEN "401"
    ELSE IF ~ScopesSatisfied(required, ScopesSet(cred.scopes)) THEN "403"
    ELSE "admit"

\* The gate's verdict: "admit", or the status of the response: that of the
\* HTTPException raised, or 500 for an exception nothing handles.
RequireScopes(cfg, required, cred) ==
    IF ~cfg.jwt_auth THEN "admit"
    ELSE IF cred.header # "bearer" \/ cred.token = "empty" THEN "401"
    ELSE IF ~cfg.jwt_secret THEN "500"
    ELSE IF cred.token = "malformed" THEN "500"
    ELSE IF ~cred.valid THEN "401"
    ELSE IF ~ScopesSatisfied(required, ScopesSet(cred.scopes)) THEN "403"
    ELSE "admit"

\* The gate alone: it is applied to a request against settings and a
\* required set, all drawn.  A token can only verify under a secret that is
\* configured.

AuthInit ==
    /\ ManagerInit
    /\ clock = 0
    /\ settings \in [jwt_auth : BOOLEAN, jwt_secret : BOOLEAN]
    /\ http \in {[req |-> "gate", required |-> required, cred |-> cred,
                   code |-> "pending"] :
                    required \in SUBSET {"scripts:run", "scripts:read"},
                    cred \in {NoHeader, [header |-> "basic"],
                              [header |-> "bearer", token |-> "empty"],
                              MalformedBearer}
                             \cup {Bearer(valid, claim) :
                                      valid \in BOOLEAN, claim \in ScopesClaims}}
    /\ (http.cred.header = "bearer" /\ http.cred.token = "jwt" /\ http.cred.valid)
          => settings.jwt_secret

AuthGate ==
    /\ http.req = "gate"
    /\ http.code = "pending"
    /\ http' = [http EXCEPT !.code = RequireScopes(settings, http.required, http.cred)]
    /\ UNCHANGED <<runs, db, proc, clock, epoch, startPc, watchPc, orphanPc,
                   stops, settings>>

AuthSpec == AuthInit /\ [][AuthGate]_vars

\* ------------------------------------------------------- the scripts root
\* A path is the sequence of its components below "/", a component a name
\* split at its last dot as PurePath.suffix splits it.
Name(stem, ext) == [stem |-> stem, ext |-> ext]
DotDot == Name("..", "")

\* The file system: directories /r (with sub) and /o, the files a.py, b.py,
\* a.txt and sub/d.py under /r and e.py under /o, and the symbolic links
\* /s -> /r, /r/in.py -> /r/a.py, /r/out.py -> /o/e.py and /r/up -> /o.
RegularFiles ==
    {<<Name("r", ""), Name("a", ".py")>>, <<Name("r", ""), Name("b", ".py")>>,
     <<Name("r", ""), Name("a", ".txt")>>,
     <<Name("r", ""), Name("sub", ""), Name("d", ".py")>>,
     <<Name("o", ""), Name("e", ".py")>>}

SymLinks ==
    {[at |-> <<Name("s", "")>>, to |-> <<Name("r", "")>>],
     [at |-> <<Name("r", ""), Name("in", ".py")>>,
      to |-> <<Name("r", ""), Name("a", ".py")>>],
     [at |-> <<Name("r", ""), Name("out", ".py")>>,
      to |-> <<Name("o", ""), Name("e", ".py")>>],
     [at |-> <<Name("r", ""), Name("up", "")>>, to |-> <<Name("o", "")>>]}

\* Path.resolve(), not strict: ".." is folded, links are followed, names
\* that do not exist are kept.  `cur` is resolved already.
RECURSIVE RealPath(_, _)
RealPath(cur, rest) ==
    IF rest = <<>> THEN cur
    ELSE LET name == Head(rest)
             next == Append(cur, name)
         IN IF name = DotDot
            THEN RealPath(IF cur = <<>> THEN <<>> ELSE SubSeq(cur, 1, Len(cur) - 1),
                          Tail(rest))
            ELSE IF \E l \in SymLinks : l.at = next
            THEN RealPath(<<>>, (CHOOSE l \in SymLinks : l.at = next).to \o Tail(rest))
            ELSE RealPath(next, Tail(rest))

\* A requested path: relative to the root, or absolute.
Requested(absolute, parts) == [absolute |-> absolute, parts |-> parts]

\* Path.__truediv__: an absolute right operand replaces the left one.
Join(base, request) ==
    IF request.absolute THEN request.parts ELSE base \o request.parts

\* PurePath.is_relative_to.
IsRelativeTo(path, base) ==
    Len(base) <= Len(path) /\ SubSeq(path, 1, Len(base)) = base

Resolved(verdict, path) == [verdict |-> verdict, path |-> path]

\* Faulty variant: the joined path is tested as written, links and ".."
\* not resolved.
ResolveScriptPathUnresolved(root, request) ==
    LET resolved_root == RealPath(<<>>, root)
        candidate == Join(resolved_root, request)
    IN IF ~IsRelativeTo(candidate, resolved_root) THEN Resolved("ValueError", <<>>)
       ELSE IF candidate = <<>> \/ candidate[Len(candidate)].ext # ".py"
       THEN Resolved("ValueError", <<>>)
       ELSE IF RealPath(<<>>, candidate) \notin RegularFiles
       THEN Resolved("FileNotFoundError", <<>>)
       ELSE Resolved("ok", candidate)

\* resolve_script, registry.py lines 52-61.
ResolveScriptPath(root, request) ==
    LET resolved_root == RealPath(<<>>, root)
        candidate == RealPath(<<>>, Join(resolved_root, request))
    IN IF ~IsRelativeTo(candidate, resolved_root) THEN Resolved("ValueError", <<>>)
       ELSE IF candidate = <<>> \/ candidate[Len(candidate)].ext # ".py"
       THEN Resolved("ValueError", <<>>)
       ELSE IF candidate \notin RegularFiles THEN Resolved("FileNotFoundError", <<>>)
       ELSE Resolved("ok", candidate)

\* start_run, app.py lines 114-121: the status raised, or "ok".
ResolveStatus(root, request) ==
    LET got == ResolveScriptPath(root, request)
    IN CASE got.verdict = "FileNotFoundError" -> "404"
         [] got.verdict = "ValueError" -> "400"
         [] OTHER -> "ok"

\* The scripts root of the application, and the requests that the names of
\* ScriptRequests stand for.

\* ------------------------------------------------------- POST /runs
\* resolve_script: the path must lie under the scripts root, end in .py and
\* name an existing file.  "../a" lies outside the root, "a.txt" is no .py
\* file, "c" does not exist.
NamedRequest(name) ==
    CASE name = "../a" -> Requested(FALSE, <<DotDot, Name("o", ""), Name("e", ".py")>>)
      [] name = "a.txt" -> Requested(FALSE, <<Name("a", ".txt")>>)
      [] OTHER -> Requested(FALSE, <<Name(name, ".py")>>)

ResolveScript(name) == ResolveStatus(<<Name("r", "")>>, NamedRequest(name))

\* The cwd of the request: none (""), a directory under the root ("sub"),
\* a path outside the root ("../out"), a path that is no directory ("file").
CwdCheck(cwd) == IF cwd \in {"../out", "file"} THEN "400" ELSE "ok"

\* Faulty variant: a run that is still starting does not count as active.
ListActiveRunsStarted(rs) ==
    {r \in DOMAIN rs : rs[r].status \in {"running", "stopping"}}

\* list_active_runs: the records with status starting, running or stopping.
ListActiveRuns(rs) == {r \in DOMAIN rs : rs[r].status \in ActiveStatuses}

\* Faulty variant: the guard compares argv[1], the "-u".
AlreadyRunningArgv1(rs, name) ==
    \E r \in ListActiveRuns(rs) :
        Len(rs[r].argv) > 1 /\ rs[r].argv[2] = AbsoluteStr(name)

\* app.py lines 136-145: an active run has argv[2] equal to the resolved path.
AlreadyRunning(rs, name) ==
    \E r \in ListActiveRuns(rs) :
        Len(rs[r].argv) > 2 /\ rs[r].argv[3] = AbsoluteStr(name)

\* What the handler answers before it calls start(): the status of the
\* HTTPException the gate or the handler raises, or "accepted".
PostRunsVerdict(req) ==
    LET gate == RequireScopes(settings, {"scripts:run"}, req.cred)
    IN IF gate # "admit" THEN gate
       ELSE IF ResolveScript(req.script) # "ok" THEN ResolveScript(req.script)
       ELSE IF CwdCheck(req.cwd) # "ok" THEN CwdCheck(req.cwd)
       ELSE IF ~req.duplicate /\ AlreadyRunning(runs, req.script) THEN "409"
       ELSE "accepted"

\* Faulty variant: the handler calls start() before its own checks, and
\* raises afterwards.
ReachesStartUnlessGate(verdict) == verdict \notin {"401", "403", "500"}

\* The handler reaches its call of start() when nothing was raised before.
ReachesStart(verdict) == verdict = "accepted"

\* POST /runs, from the gate to the first suspension of the handler: the
\* request is refused, or start() is called and runs up to its await of
\* create_subprocess_exec.
PostRuns(req) ==
    LET verdict == PostRunsVerdict(req)
    IN IF ReachesStart(verdict)
       THEN \E r \in RunIds :
               /\ StartSegment(r, req.script, <<>>)
               /\ http' = [http EXCEPT
                              !.req = "POST /runs", !.code = verdict,
                              !.nodup = IF req.duplicate THEN @ ELSE @ \cup {r}]
               /\ UNCHANGED settings
       ELSE /\ http' = [http EXCEPT !.req = "POST /runs", !.code = verdict]
            /\ UNCHANGED <<runs, db, proc, clock, epoch, startPc, watchPc,
                           orphanPc, stops, settings>>

\* The requests made: a token with the scope, one without it, one that does
\* not verify, no header; the scripts and cwds above.
RunToken == Bearer(TRUE, [kind |-> "list", items |-> <<"scripts:run">>])

PostRunsRequests ==
    {[cred |-> RunToken, script |-> s, cwd |-> "", duplicate |-> d] :
        s \in Scripts, d \in BOOLEAN}
    \cup {[cred |-> c, script |-> "a", cwd |-> "", duplicate |-> FALSE] :
        c \in {NoHeader, Bearer(FALSE, [kind |-> "missing"]),
               Bearer(TRUE, [kind |-> "string", str |-> "scripts:read"])}}
    \cup {[cred |-> RunToken, script |-> s, cwd |-> "", duplicate |-> FALSE] :
        s \in {"../a", "a.txt", "c"}}
    \cup {[cred |-> RunToken, script |-> "a", cwd |-> w, duplicate |-> FALSE] :
        w \in {"sub", "../out", "file"}}

\* The application: settings as load_settings may return them (a token
\* verifies only under a configured secret), a RunManager over an empty
\* state directory.  Timestamps play no part here: the clock has reached
\* MaxClock, at most MaxHttpStops stop() calls are made, and the process
\* is not restarted (a restart creates no run and makes none active), so
\* no run is an orphan and stop() never takes its polling branch.
HttpInit ==
    /\ ManagerInit
    /\ clock = MaxClock
    /\ settings \in [jwt_auth : {TRUE}, jwt_secret : BOOLEAN]
    /\ http = NoExchange

HttpNext ==
    \/ \E req \in PostRunsRequests :
          /\ (req.cred.header = "bearer" /\ req.cred.valid) => settings.jwt_secret
          /\ PostRuns(req)
    \/ \E r \in RunIds : StartSpawned(r)
    \/ \E r \in RunIds : StartSpawnFails(r)
    \/ \E r \in RunIds : \E code \in OwnCodes \cup {KilledBy(SIGTERM), KilledBy(SIGKILL)} :
          ChildExit(r, code)
    \/ \E r \in RunIds : WatchObserve(r)
    \/ \E c \in 1 .. MaxHttpStops : \E r \in RunIds : \E outcome \in Outcomes :
          StopCall(c, r, outcome)
    \/ \E c \in StopIds : StopGraceExit(c)
    \/ \E c \in StopIds : \E outcome \in Outcomes : StopGraceTimeout(c, outcome)

HttpSpec == HttpInit /\ [][HttpNext]_vars

\* ------------------------------------------- the durable store, reloaded
\* The state directory as the constructor may find it: runs.db is read as it
\* is, whatever wrote it.  A record of run 1 is drawn from StoredRecords and
\* the process its pid names is running or gone; the record is saved and a
\* RunManager is constructed over the directory.
ArgvSamples ==
    {Cmd("a", <<>>),
     Cmd("a", << <<"x", "\"">> >>),
     Cmd("a", << <<"\\">>, <<>> >>)}

StoredRecords ==
    [script : {"a"}, argv : ArgvSamples,
     status : ActiveStatuses \cup TerminalStatuses \cup {"unknown"},
     pid : {None, Some(PidOf(1))}, return_code : {None, Some(0)},
     created_at : {Some(0)}, started_at : {None, Some(0)},
     finished_at : {None, Some(1)},
     stdout_path : {LogPath(1, "stdout")}, stderr_path : {LogPath(1, "stderr")},
     error : {<<>>, <<"boom">>}, process : {FALSE}]

ReloadInit ==
    /\ runs \in {[r \in {1} |-> rec] : rec \in StoredRecords}
    /\ db = <<>>
    /\ proc \in {[r \in RunIds |->
                    [st |-> IF r = 1 THEN st ELSE "none", code |-> None, sig |-> 0]] :
                 st \in {"alive", "dead"}}
    /\ clock = MaxClock
    /\ epoch = 0
    /\ startPc = [r \in RunIds |-> IF r = 1 THEN "done" ELSE "idle"]
    /\ watchPc = [r \in RunIds |-> "none"]
    /\ orphanPc = [r \in RunIds |-> "none"]
    /\ stops = [c \in StopIds |-> NoStop]
    /\ settings = DefaultSettings
    /\ http = NoExchange

\* persist(r): _save_run_sync of the record.
PersistRecord(r) ==
    /\ r \in DOMAIN runs
    /\ r \notin DOMAIN db
    /\ db' = SaveRunSync(db, r, runs[r])
    /\ UNCHANGED <<runs, proc, clock, epoch, startPc, watchPc, orphanPc, stops,
                   settings, http>>

ReloadNext ==
    \/ \E r \in RunIds : PersistRecord(r)
    \/ Restart

ReloadSpec == ReloadInit /\ [][ReloadNext]_vars

\* ================================================================ claims
StopsOn(r) == {c \in StopIds : stops[c].pc # "idle" /\ stops[c].run = r}

\* C1: every record with a terminal status has finished_at set.
C1_TerminalHasFinishedAt ==
    \A r \in DOMAIN runs :
        runs[r].status \in TerminalStatuses => runs[r].finished_at # None

\* C2: a record with a terminal status has a child that is no longer alive.
C2_TerminalChildNotAlive ==
    \A r \in DOMAIN runs :
        runs[r].status \in TerminalStatuses => ~IsProcessAlive(r)

\* C3: a record with status running, in the registry or as returned by a
\* stop call, has pid and started_at set and return_code null.
RunningShape(rec) ==
    rec.status = "running" =>
        rec.pid # None /\ rec.started_at # None /\ rec.return_code = None

C3_RunningHasPid ==
    /\ \A r \in DOMAIN runs : RunningShape(runs[r])
    /\ \A c \in StopIds : stops[c].ret # None => RunningShape(Get(stops[c].ret))

\* C3's case: a run is running after a stop call met it while start was still
\* in spawn.
C3_Witness ==
    \E c \in StopIds :
        /\ stops[c].kind = "nohandle"
        /\ stops[c].run \in DOMAIN runs
        /\ runs[stops[c].run].status = "running"

\* C4: a record whose return_code is set has status succeeded, failed or
\* stopped.
C4_ReturnCodeOnlyOnReaped ==
    \A r \in DOMAIN runs :
        runs[r].return_code # None =>
            runs[r].status \in {"succeeded", "failed", "stopped"}

\* C4's case: a return code recorded while a stop call was waiting.
C4_Witness ==
    \E c \in StopIds :
        /\ stops[c].kind = "handle" /\ stops[c].sawExit
        /\ runs[stops[c].run].return_code # None

\* C5: when the watcher observes the child's exit with code c the run gets
\* return_code c, finished_at, and status stopped if it was stopping or
\* stopped, else succeeded for c = 0 and failed otherwise, and the row is
\* saved; a run on which stop was never called has then ended succeeded
\* exactly when c = 0; and the watcher of a child that has ended does observe
\* it, unless the server is restarted first.
C5_Step(r) ==
    (watchPc[r] = "wait" /\ watchPc'[r] = "done") =>
        LET c == Get(proc[r].code)
            was == runs[r].status
        IN /\ runs'[r].return_code = Some(c)
           /\ runs'[r].finished_at # None
           /\ runs'[r].status =
                 (IF was \in {"stopping", "stopped"} THEN "stopped"
                  ELSE IF c = 0 THEN "succeeded" ELSE "failed")
           /\ db'[r] = Row(runs'[r])

C5_NeverStopped(r) ==
    (watchPc[r] = "done" /\ StopsOn(r) = {}) =>
        /\ runs[r].return_code = proc[r].code
        /\ runs[r].status = "succeeded" <=> proc[r].code = Some(0)
        /\ runs[r].status = "failed" <=> proc[r].code # Some(0)

C5_WatcherRule ==
    /\ [][\A r \in RunIds : C5_Step(r)]_vars
    /\ [](\A r \in RunIds : C5_NeverStopped(r))
    /\ \A r \in RunIds : \A e \in 0 .. MaxRestarts :
          (epoch = e /\ watchPc[r] = "wait" /\ proc[r].st = "dead")
              ~> (epoch # e \/ watchPc[r] = "done")

\* C5's case: a run that was never stopped ended failed with its exit code 2.
C5_Witness ==
    \E r \in DOMAIN runs :
        /\ watchPc[r] = "done" /\ StopsOn(r) = {}
        /\ runs[r].status = "failed" /\ runs[r].return_code = Some(2)

\* C6: a stop call on an unknown run returns null, and one on a run that is
\* neither running nor starting returns the record; either changes no record,
\* no row and no process, and sends no signal.
C6_Step(c) ==
    (stops[c].pc = "idle" /\ stops'[c].pc # "idle") =>
        LET r == stops'[c].run
        IN /\ r \notin DOMAIN runs =>
                 /\ stops'[c].pc = "done" /\ stops'[c].ret = None
                 /\ UNCHANGED <<runs, db, proc>>
           /\ (r \in DOMAIN runs /\ runs[r].status \notin {"running", "starting"}) =>
                 /\ stops'[c].pc = "done" /\ stops'[c].ret = Some(runs[r])
                 /\ ~stops'[c].term /\ stops'[c].kills = 0
                 /\ UNCHANGED <<runs, db, proc>>

C6_StopNoop == [][\A c \in StopIds : C6_Step(c)]_vars

\* C6's case: stop was called twice on a run that had ended, and both calls
\* returned the same record.
C6_Witness ==
    \E c, d \in StopIds :
        /\ c # d /\ stops[c].kind = "noop" /\ stops[d].kind = "noop"
        /\ stops[c].run = stops[d].run
        /\ Get(stops[c].ret).status \in TerminalStatuses
        /\ Get(stops[d].ret) = Get(stops[c].ret)

\* C7: a stop call that met a running or starting run and returned a record
\* has seen the child's exit or has sent SIGKILL.
C7_StopSawExitOrKilled ==
    \A c \in StopIds :
        (stops[c].pc = "done" /\ stops[c].kind \in {"nohandle", "handle", "orphan"}) =>
            (stops[c].sawExit \/ stops[c].kills > 0)

\* C8: a stop call that delivered SIGTERM to a child it has a handle of, and
\* saw it end within the grace window, returns the record with status
\* stopped, the child's return code and finished_at, and the row saved is
\* that record.
C8_Step(c) ==
    (stops[c].pc = "grace" /\ stops'[c].pc = "done" /\ stops'[c].sawExit) =>
        LET r == stops[c].run
            rec == Get(stops'[c].ret)
        IN /\ rec.status = "stopped"
           /\ rec.return_code = proc[r].code /\ rec.return_code # None
           /\ rec.finished_at # None
           /\ rec = runs'[r]
           /\ db'[r] = Row(rec)

C8_GraceExitStopped == [][\A c \in StopIds : C8_Step(c)]_vars

\* C8's case: the watcher had observed the exit before the stop call did: the
\* only run's record carries the time the stop call wrote, two clock readings
\* after started_at.
C8_Witness ==
    \E c \in StopIds :
        /\ stops[c].kind = "handle" /\ stops[c].sawExit /\ stops[c].term
        /\ DOMAIN runs = {stops[c].run}
        /\ watchPc[stops[c].run] = "done"
        /\ runs[stops[c].run].finished_at = Get(stops[c].ret).finished_at
        /\ Get(runs[stops[c].run].finished_at) = Get(runs[stops[c].run].started_at) + 2

\* C9: a stop call whose grace window ends sends SIGKILL once and returns the
\* record as it is, without waiting; once SIGKILL has reached the child, the
\* run gets status stopped with finished_at set, unless the server is
\* restarted first.
C9_Step(c) ==
    (stops[c].pc = "grace" /\ stops'[c].pc = "done" /\ ~stops'[c].sawExit) =>
        LET r == stops[c].run
        IN /\ stops'[c].kills <= 1
           /\ stops'[c].kills = 1 => proc'[r].sig = SIGKILL
           /\ stops'[c].ret = Some(runs[r])
           /\ UNCHANGED <<runs, db>>

C9_KilledThenStopped(c) ==
    (stops[c].pc = "done" /\ stops[c].kind = "handle" /\ stops[c].kills = 1
        /\ epoch = stops[c].epoch)
    ~> \/ epoch # stops[c].epoch
       \/ /\ stops[c].run \in DOMAIN runs
          /\ runs[stops[c].run].status = "stopped"
          /\ runs[stops[c].run].finished_at # None

C9_KillAfterGrace ==
    /\ [][\A c \in StopIds : C9_Step(c)]_vars
    /\ \A c \in StopIds : C9_KilledThenStopped(c)

\* C9's case: the run of a stop call that sent SIGKILL is stopped, with the
\* return code of a killed child.
C9_Witness ==
    \E c \in StopIds :
        /\ stops[c].kind = "handle" /\ stops[c].kills = 1
        /\ Get(stops[c].ret).status = "stopping"
        /\ runs[stops[c].run].status = "stopped"
        /\ runs[stops[c].run].return_code = Some(KilledBy(SIGKILL))

\* C10: once a stop call on an adopted orphan has returned after sending
\* SIGKILL, the process is gone and the re-watcher has finished, the run has
\* status stopped with finished_at set.
C10_OrphanEndsStopped ==
    \A c \in StopIds :
        (/\ stops[c].pc = "done" /\ stops[c].kind = "orphan"
         /\ stops[c].kills = 1 /\ epoch = stops[c].epoch
         /\ ~IsProcessAlive(stops[c].run)
         /\ orphanPc[stops[c].run] = "done") =>
            /\ runs[stops[c].run].status = "stopped"
            /\ runs[stops[c].run].finished_at # None

\* C11: at every suspension point (every state here: an action is the code
\* between two suspension points) each record of the registry has a row of
\* the same run_id whose fields, argv and the paths read back from their
\* text, equal the record's.
SameFields(rec, row) ==
    /\ row.script = rec.script
    /\ JsonLoads(row.argv) = rec.argv
    /\ row.status = rec.status
    /\ row.pid = rec.pid
    /\ row.return_code = rec.return_code
    /\ row.created_at = rec.created_at
    /\ row.started_at = rec.started_at
    /\ row.finished_at = rec.finished_at
    /\ PathOf(row.stdout_path) = rec.stdout_path
    /\ PathOf(row.stderr_path) = rec.stderr_path
    /\ row.error = rec.error

C11_RegistryMirrored ==
    \A r \in DOMAIN runs : r \in DOMAIN db /\ SameFields(runs[r], db[r])

\* C11's case: a stop call is suspended in its grace window; the record it
\* set to stopping, first saved as starting and then as running, is mirrored.
C11_Witness ==
    \E c \in StopIds :
        /\ stops[c].pc = "grace"
        /\ runs[stops[c].run].status = "stopping"
        /\ db[stops[c].run].status = "stopping"
        /\ db[stops[c].run].pid = Some(PidOf(stops[c].run))

\* C12 as stated: a record that was saved is, after the construction of a new
\* RunManager over the state directory, in the registry with every field
\* (the child handle apart) as before.
Persisted(r) == r \in DOMAIN runs /\ r \in DOMAIN db /\ db[r] = Row(runs[r])

C12_Step(r) ==
    (epoch' = epoch + 1 /\ Persisted(r)) =>
        /\ r \in DOMAIN runs'
        /\ Row(runs'[r]) = Row(runs[r])
        /\ runs'[r].argv = runs[r].argv
        /\ runs'[r].stdout_path = runs[r].stdout_path
        /\ runs'[r].stderr_path = runs[r].stderr_path

C12_RoundTrip == [][\A r \in RunIds : C12_Step(r)]_vars

\* C12 amended: the same, for a record whose status is not starting, running
\* or stopping, or whose pid is set and alive at the construction.
Reconciled(r) ==
    /\ runs[r].status \in ActiveStatuses
    /\ (runs[r].pid = None \/ ~IsProcessAlive(r))

C12_RoundTripUnlessReconciled ==
    [][\A r \in RunIds : (Persisted(r) /\ ~Reconciled(r)) => C12_Step(r)]_vars

\* C12's case: a record with a quote in an argument came back unchanged as
\* an adopted, running one.
C12_Witness ==
    /\ epoch = 1
    /\ 1 \in DOMAIN runs
    /\ runs[1].status = "running"
    /\ runs[1].argv = Cmd("a", << <<"x", "\"">> >>)
    /\ runs[1].error = <<"boom">>
    /\ orphanPc[1] = "poll"

\* C13: the construction of a RunManager turns every row with status
\* starting, running or stopping whose pid is unset or not alive into a
\* record with status terminated, finished_at set (kept if the row had one,
\* else the time of the construction), return_code as in the row, and error
\* the row's lines followed by the restart note, and saves it; no record is
\* active after the construction unless its pid was alive at the probe.
RestartNotes == {"Server restarted", "Server restarted and process not found"}

C13_Step(r) ==
    (/\ epoch' = epoch + 1
     /\ r \in DOMAIN db
     /\ db[r].status \in ActiveStatuses
     /\ (db[r].pid = None \/ ~IsProcessAlive(r))) =>
        /\ r \in DOMAIN runs'
        /\ runs'[r].status = "terminated"
        /\ runs'[r].finished_at =
              (IF db[r].finished_at # None THEN db[r].finished_at ELSE Some(UtcNow))
        /\ runs'[r].return_code = db[r].return_code
        /\ Len(runs'[r].error) = Len(db[r].error) + 1
        /\ SubSeq(runs'[r].error, 1, Len(db[r].error)) = db[r].error
        /\ runs'[r].error[Len(runs'[r].error)] \in RestartNotes
        /\ db'[r] = Row(runs'[r])

C13_NoneLeftActive ==
    epoch' = epoch + 1 =>
        \A r \in DOMAIN runs' :
            runs'[r].status \in ActiveStatuses =>
                r \in DOMAIN db /\ db[r].pid # None /\ IsProcessAlive(r)

C13_Reconciled == [][(\A r \in RunIds : C13_Step(r)) /\ C13_NoneLeftActive]_vars

\* C13's case: a row of an active run whose process is gone, which had an
\* error, a finished_at and a return code, after the construction.
C13_Witness ==
    /\ epoch = 1
    /\ 1 \in DOMAIN runs
    /\ runs[1].status = "terminated"
    /\ runs[1].error = <<"boom", "Server restarted and process not found">>
    /\ runs[1].finished_at = Some(1)
    /\ runs[1].return_code = Some(0)
    /\ db[1] = Row(runs[1])

\* C14: a row with an active status whose pid is alive at the construction
\* becomes a record with the same status (and every other field), watched by
\* the re-watcher; when the re-watcher finds the process gone and stop has
\* not been called on the run since the construction, the run gets status
\* terminated and finished_at, return_code stays null, and the row is saved;
\* and the re-watcher of a process that is gone does get there, unless stop
\* is called on the run first.
StopsSinceRestart(r) ==
    {c \in StopIds : stops[c].pc # "idle" /\ stops[c].run = r /\ stops[c].epoch = epoch}

C14_Adopt(r) ==
    (/\ epoch' = epoch + 1
     /\ r \in DOMAIN db
     /\ db[r].status \in ActiveStatuses
     /\ db[r].pid # None
     /\ IsProcessAlive(r)) =>
        /\ r \in DOMAIN runs'
        /\ Row(runs'[r]) = db[r]
        /\ db'[r] = db[r]
        /\ orphanPc'[r] = "poll"

C14_Found(r) ==
    (/\ orphanPc[r] = "poll" /\ orphanPc'[r] = "done"
     /\ epoch' = epoch
     /\ StopsSinceRestart(r) = {}) =>
        /\ runs'[r].status = "terminated"
        /\ runs'[r].finished_at = Some(UtcNow)
        /\ runs'[r].return_code = None
        /\ db'[r] = Row(runs'[r])

C14_Ended(r) ==
    /\ r \in DOMAIN runs
    /\ runs[r].status = "terminated"
    /\ runs[r].finished_at # None
    /\ runs[r].return_code = None
    /\ db[r] = Row(runs[r])

C14_AdoptedOrphanTerminated ==
    /\ [][\A r \in RunIds : C14_Adopt(r) /\ C14_Found(r)]_vars
    /\ \A r \in RunIds :
          (orphanPc[r] = "poll" /\ ~IsProcessAlive(r) /\ StopsSinceRestart(r) = {})
              ~> (StopsSinceRestart(r) # {} \/ C14_Ended(r))

\* C14's case: a run adopted while stopping (stop had been called before the
\* restart, not since) whose process then died, ended by the re-watcher.
C14_Witness ==
    \E r \in DOMAIN runs :
        /\ orphanPc[r] = "done"
        /\ StopsSinceRestart(r) = {}
        /\ \E c \in StopIds : stops[c].run = r /\ stops[c].pc = "lost"
        /\ runs[r].status = "terminated"
        /\ runs[r].error = <<>>
        /\ runs[r].return_code = None

\* C15: when create_subprocess_exec raises, start() returns its record (the
\* registry's) with status failed, error set, finished_at set, pid and
\* started_at null; the row saved is that record, no child exists and no
\* watcher is scheduled.
C15_Step(r) ==
    (/\ startPc[r] = "spawn" /\ startPc'[r] = "done"
     /\ epoch' = epoch
     /\ proc'[r].st = "none") =>
        /\ runs'[r].status = "failed"
        /\ runs'[r].error # <<>>
        /\ runs'[r].finished_at = Some(UtcNow)
        /\ runs'[r].pid = None
        /\ runs'[r].started_at = None
        /\ ~runs'[r].process
        /\ db'[r] = Row(runs'[r])
        /\ watchPc'[r] = "none"

C15_SpawnFailureRecorded == [][\A r \in RunIds : C15_Step(r)]_vars

\* C15's case: the spawn failed after a stop call had set the run to
\* stopping.
C15_Witness ==
    \E c \in StopIds :
        /\ stops[c].kind = "nohandle"
        /\ stops[c].run \in DOMAIN runs
        /\ startPc[stops[c].run] = "done"
        /\ proc[stops[c].run].st = "none"
        /\ runs[stops[c].run].status = "failed"
        /\ runs[stops[c].run].error = <<"spawn failed">>
        /\ Get(stops[c].ret).status = "stopping"

\* C19: for a token that verified, with S the set its scopes claim stands
\* for (a string: that one scope; a list: its elements; anything else, or no
\* claim: none) and R the required set: if "*" is in S a non-empty R is
\* admitted, otherwise the request is admitted exactly when R is a subset of
\* S, and refused with 403 when it is not admitted.
ClaimedScopes(v) ==
    IF v.kind = "string" THEN {v.str}
    ELSE IF v.kind = "list" THEN {v.items[i] : i \in DOMAIN v.items}
    ELSE {}

GateDone == http.req = "gate" /\ http.code # "pending"
TokenMissing == http.cred.header # "bearer" \/ http.cred.token = "empty"
TokenVerified == ~TokenMissing /\ http.cred.token = "jwt" /\ http.cred.valid

C19_ScopeCheck ==
    (GateDone /\ settings.jwt_auth /\ TokenVerified) =>
        LET S == ClaimedScopes(http.cred.scopes)
            R == http.required
        IN /\ ("*" \in S /\ R # {}) => http.code = "admit"
           /\ "*" \notin S => (http.code = "admit" <=> R \subseteq S)
           /\ http.code \in {"admit", "403"}

\* C19's case: a scopes claim that is the single string scripts:run admits a
\* request that requires scripts:run.
C19_Witness ==
    /\ GateDone /\ settings.jwt_auth /\ TokenVerified
    /\ http.cred.scopes = [kind |-> "string", str |-> "scripts:run"]
    /\ http.required = {"scripts:run"}
    /\ http.code = "admit"

\* C20 as stated: with auth off every request is admitted; with auth on a
\* missing or invalid token gets 401, a valid token with insufficient scopes
\* 403, and a missing secret 500.
Sufficient ==
    ScopesSatisfied(http.required, ClaimedScopes(http.cred.scopes))

C20_GateOutcomes ==
    GateDone =>
        /\ ~settings.jwt_auth => http.code = "admit"
        /\ (settings.jwt_auth /\ ~TokenVerified) => http.code = "401"
        /\ (settings.jwt_auth /\ TokenVerified /\ ~Sufficient) => http.code = "403"
        /\ (settings.jwt_auth /\ ~settings.jwt_secret) => http.code = "500"

\* C16: a POST /runs request with duplicate=false that passes the gate and
\* resolves to a script of which a run created by an earlier POST /runs with
\* duplicate=false is starting, running or stopping is answered 409 and
\* creates no record.
PassesChecks(req) ==
    /\ RequireScopes(settings, {"scripts:run"}, req.cred) = "admit"
    /\ ResolveScript(req.script) = "ok"
    /\ CwdCheck(req.cwd) = "ok"

ActiveRunOf(r, name) ==
    /\ r \in DOMAIN runs
    /\ runs[r].status \in {"starting", "running", "stopping"}
    /\ runs[r].argv[3] = AbsoluteStr(name)

C16_Step(req) ==
    (/\ ~req.duplicate
     /\ PassesChecks(req)
     /\ \E r \in http.nodup : ActiveRunOf(r, req.script)
     /\ PostRuns(req)) =>
        /\ http'.code = "409"
        /\ runs' = runs
        /\ db' = db

C16_DuplicateGuard == [][\A req \in PostRunsRequests : C16_Step(req)]_vars

\* C16's case: 409 was answered, and the only run, created with
\* duplicate=false, has been spawned and is still active.
C16_Witness ==
    /\ http.code = "409"
    /\ \E r \in http.nodup :
          /\ DOMAIN runs = {r}
          /\ startPc[r] = "done"
          /\ runs[r].status \in {"running", "stopping"}

\* C17 as stated, in the form a run can refute: whenever a POST /runs
\* handler with duplicate=false is suspended in start() (its run is starting,
\* the spawn pending) and a run can still be created, a second POST /runs
\* with duplicate=false for the same script can be accepted.
SecondRequest(name) ==
    [cred |-> RunToken, script |-> name, cwd |-> "", duplicate |-> FALSE]

C17_ConcurrentBothStart ==
    \A r \in http.nodup :
        (/\ r \in DOMAIN runs
         /\ startPc[r] = "spawn"
         /\ runs[r].status = "starting"
         /\ DOMAIN runs # RunIds
         /\ settings.jwt_secret) =>
            ENABLED (PostRuns(SecondRequest(runs[r].script)) /\ http'.code = "accepted")

\* C17 amended: no two runs created by POST /runs with duplicate=false are
\* active with the same argv[2].
C17_NoTwoActiveOfOneScript ==
    \A r, q \in http.nodup :
        (r # q /\ r \in DOMAIN runs /\ q \in DOMAIN runs
            /\ runs[r].status \in ActiveStatuses
            /\ runs[q].status \in ActiveStatuses) =>
                runs[r].argv[3] # runs[q].argv[3]

\* C17's case: the second request was handled while the first handler was
\* still suspended in its spawn, and was answered 409.
C17_Witness ==
    /\ http.code = "409"
    /\ \E r \in http.nodup :
          /\ DOMAIN runs = {r}
          /\ startPc[r] = "spawn"
          /\ runs[r].status = "starting"
          /\ epoch = 0

\* C18: a POST /runs request answered 400, 404, 409, 401, 403 or 500 leaves
\* the registry, the store and the processes as they are and schedules
\* nothing.
Rejections == {"400", "401", "403", "404", "409", "500"}

C18_Step(req) ==
    (http'.code \in Rejections /\ PostRuns(req)) =>
        UNCHANGED <<runs, db, proc, startPc, watchPc, orphanPc, stops>>

C18_RejectionTouchesNothing == [][\A req \in PostRunsRequests : C18_Step(req)]_vars

\* C18's case: a request for a script outside the root was answered 400
\* while a run was running.
C18_Witness ==
    /\ http.code = "400"
    /\ \E r \in DOMAIN runs : runs[r].status = "running" /\ watchPc[r] = "wait"

\* --------------------------------------------------- the JWT codec
\* jwt.py.  A character of a token segment is a number: 0 .. 63 is its index
\* in the urlsafe alphabet, Pad is "=", Junk an ASCII character outside the
\* alphabet, NonAscii a character that str.encode("ascii") refuses.
Pad == 64
Junk == 65
NonAscii == 66

\* binascii.a2b_base64 in its default, non-strict mode: characters outside
\* the alphabet are skipped, padding that completes a group of four ends the
\* input, leftover bits are dropped, and an unfinished group is an error.
RECURSIVE A2bBase64(_, _, _, _, _)
A2bBase64(data, quad, left, pads, out) ==
    IF data = <<>>
    THEN IF quad = 0 THEN [ok |-> TRUE, bytes |-> out]
         ELSE [ok |-> FALSE, bytes |-> <<>>]
    ELSE LET ch == Head(data)
             rest == Tail(data)
         IN IF ch = Pad
            THEN IF quad >= 2 /\ quad + pads + 1 >= 4
                 THEN [ok |-> TRUE, bytes |-> out]
                 ELSE A2bBase64(rest, quad, left,
                                IF quad >= 2 THEN pads + 1 ELSE pads, out)
            ELSE IF ch > 63 THEN A2bBase64(rest, quad, left, pads, out)
            ELSE CASE quad = 0 -> A2bBase64(rest, 1, ch, 0, out)
                   [] quad = 1 -> A2bBase64(rest, 2, ch % 16, 0,
                                            Append(out, left * 4 + ch \div 16))
                   [] quad = 2 -> A2bBase64(rest, 3, ch % 4, 0,
                                            Append(out, left * 16 + ch \div 4))
                   [] OTHER -> A2bBase64(rest, 0, 0, 0,
                                         Append(out, left * 64 + ch))

\* binascii.b2a_base64: three bytes make four characters, the last group
\* is padded.
RECURSIVE B2aBase64(_)
B2aBase64(bytes) ==
    IF bytes = <<>> THEN <<>>
    ELSE IF Len(bytes) = 1
    THEN <<bytes[1] \div 4, (bytes[1] % 4) * 16, Pad, Pad>>
    ELSE IF Len(bytes) = 2
    THEN <<bytes[1] \div 4, (bytes[1] % 4) * 16 + bytes[2] \div 16,
           (bytes[2] % 16) * 4, Pad>>
    ELSE <<bytes[1] \div 4, (bytes[1] % 4) * 16 + bytes[2] \div 16,
           (bytes[2] % 16) * 4 + bytes[3] \div 64, bytes[3] % 64>>
         \o B2aBase64(SubSeq(bytes, 4, Len(bytes)))

RECURSIVE RStripPad(_)
RStripPad(text) ==
    IF text # <<>> /\ text[Len(text)] = Pad
    THEN RStripPad(SubSeq(text, 1, Len(text) - 1))
    ELSE text

\* _b64url_encode, lines 16-17.
B64UrlEncode(bytes) == RStripPad(B2aBase64(bytes))

\* Faulty variant: no padding is added before decoding.
B64UrlDecodeUnpadded(raw) ==
    IF \E i \in DOMAIN raw : raw[i] = NonAscii
    THEN [ok |-> FALSE, raised |-> "UnicodeEncodeError", bytes |-> <<>>]
    ELSE LET got == A2bBase64(raw, 0, 0, 0, <<>>)
         IN [ok |-> got.ok,
             raised |-> IF got.ok THEN "none" ELSE "binascii.Error",
             bytes |-> got.bytes]

\* _b64url_decode, lines 20-22: pads to a multiple of four, encodes to ASCII
\* and decodes; `raised` names the exception when there is one.
B64UrlDecode(raw) ==
    LET padding == [i \in 1 .. ((4 - (Len(raw) % 4)) % 4) |-> Pad]
    IN IF \E i \in DOMAIN raw : raw[i] = NonAscii
       THEN [ok |-> FALSE, raised |-> "UnicodeEncodeError", bytes |-> <<>>]
       ELSE LET got == A2bBase64(raw \o padding, 0, 0, 0, <<>>)
            IN [ok |-> got.ok,
                raised |-> IF got.ok THEN "none" ELSE "binascii.Error",
                bytes |-> got.bytes]

\* A claim holding a time: absent, JSON null, an integer, or a text that
\* int() refuses.
TimeClaim(kind, num) == [kind |-> kind, num |-> num]
NoTime == TimeClaim("absent", 0)

\* An aud claim: absent, a string (one name), a list of names, a number.
AudClaim(kind, names) == [kind |-> kind, names |-> names]

\* A payload: the claims the code looks at; `shape` tells a JSON object from
\* a JSON array, `keys` whether a nested object has an integer key (which
\* json.dumps writes as a string).
BasePayload ==
    [shape |-> "object", keys |-> "str", sub |-> "x", iat |-> NoTime,
     exp |-> NoTime, nbf |-> NoTime, iss |-> {}, aud |-> AudClaim("absent", <<>>),
     scopes |-> [kind |-> "missing"], jti |-> 0]

JwtIss == "quant-script-api"
JwtAud == "quant-internal"
JwtExpireSeconds == 1

\* issue_admin_token, lines 96-110: the payload issued at time t with the
\* j-th fresh uuid.
AdminPayload(t, j) ==
    [BasePayload EXCEPT !.sub = "admin", !.scopes = [kind |-> "list", items |-> <<"*">>],
                        !.iat = TimeClaim("int", t),
                        !.exp = TimeClaim("int", t + JwtExpireSeconds),
                        !.jti = j, !.iss = {JwtIss},
                        !.aud = AudClaim("string", <<JwtAud>>)]

MaxTokens == 2

\* The payloads signed in this model.
PayloadList ==
    << BasePayload,
       [BasePayload EXCEPT !.keys = "int"],
       [BasePayload EXCEPT !.shape = "array"],
       [BasePayload EXCEPT !.exp = TimeClaim("int", 0)],
       [BasePayload EXCEPT !.exp = TimeClaim("int", 100)],
       [BasePayload EXCEPT !.exp = TimeClaim("null", 0)],
       [BasePayload EXCEPT !.exp = TimeClaim("text", 0)],
       [BasePayload EXCEPT !.nbf = TimeClaim("int", 100)],
       [BasePayload EXCEPT !.nbf = TimeClaim("null", 0)],
       [BasePayload EXCEPT !.exp = TimeClaim("int", 100), !.nbf = TimeClaim("int", 100)],
       [BasePayload EXCEPT !.iss = {JwtIss}, !.aud = AudClaim("list", <<"x", JwtAud>>)],
       [BasePayload EXCEPT !.iss = {JwtIss}, !.aud = AudClaim("number", <<>>)],
       [BasePayload EXCEPT !.iss = {"other"}, !.aud = AudClaim("string", <<JwtAud>>)] >>
    \o [n \in 1 .. (MaxClock + 1) * MaxTokens |->
            AdminPayload((n - 1) \div MaxTokens, ((n - 1) % MaxTokens) + 1)]

\* A header or payload segment: the JSON text its base64 decodes to (when
\* it does: ok), and which of the spellings with that decoding it is;
\* spelling 0 is the one _b64url_encode writes.
Segment(ok, json, spelling) == [ok |-> ok, json |-> json, spelling |-> spelling]

IndexOf(list, x) == CHOOSE i \in DOMAIN list : list[i] = x

\* hmac.new(secret, signing_input, sha256).digest(): two bytes here, and
\* different (secret, signing input) pairs have different digests.
Hmac(secret, header, payload) ==
    << IndexOf(<<"k1", "k2">>, secret),
       ((IndexOf(<<"HS256", "none", "array">>, header.json) - 1) * 2 + header.spelling)
            * 2 * Len(PayloadList)
         + (IndexOf(PayloadList, payload.json) - 1) * 2 + payload.spelling >>

\* encode_hs256, lines 25-32.
EncodeHs256(payload, secret) ==
    LET header_b64 == Segment(TRUE, "HS256", 0)
        \* json.dumps: the keys of the payload are written as strings
        payload_b64 == Segment(TRUE, [payload EXCEPT !.keys = "str"], 0)
    IN [parts |-> 3, header |-> header_b64, payload |-> payload_b64,
        signature |-> B64UrlEncode(Hmac(secret, header_b64, payload_b64))]

Raise(kind, reason) == [raised |-> kind, reason |-> reason, claims |-> {}]

\* Faulty variant: the token expires one second early.
ExpCheckEarly(exp, now, leeway) ==
    IF exp.kind \in {"absent", "null"} THEN "pass"
    ELSE IF exp.kind # "int" THEN "Invalid exp claim"
    ELSE IF now >= exp.num + leeway THEN "Token expired"
    ELSE "pass"

\* Lines 72-79.
ExpCheck(exp, now, leeway) ==
    IF exp.kind \in {"absent", "null"} THEN "pass"
    ELSE IF exp.kind # "int" THEN "Invalid exp claim"
    ELSE IF now > exp.num + leeway THEN "Token expired"
    ELSE "pass"

\* Lines 81-88.
NbfCheck(nbf, now, leeway) ==
    IF nbf.kind \in {"absent", "null"} THEN "pass"
    ELSE IF nbf.kind # "int" THEN "Invalid nbf claim"
    ELSE IF now + leeway < nbf.num THEN "Token not yet valid"
    ELSE "pass"

\* Lines 90-105; expected values are sets, empty for None.
IssAudCheck(p, expected_iss, expected_aud) ==
    IF expected_iss # {} /\ p.iss # expected_iss THEN "Invalid iss claim"
    ELSE IF expected_aud = {} THEN "pass"
    ELSE IF p.aud.kind = "absent" THEN "Missing aud claim"
    ELSE IF p.aud.kind = "string" /\ {p.aud.names[1]} = expected_aud THEN "pass"
    ELSE IF p.aud.kind = "list"
            /\ \E i \in DOMAIN p.aud.names : {p.aud.names[i]} = expected_aud THEN "pass"
    ELSE "Invalid aud claim"

\* Faulty variant: the signature segment is compared as text with the one
\* encode would write.
SignatureOkText(signature_b64, expected_sig) ==
    IF signature_b64 = B64UrlEncode(expected_sig) THEN "ok" ELSE "differs"

\* Lines 64-68: "ok", "differs", or the exception _b64url_decode raises.
SignatureOk(signature_b64, expected_sig) ==
    LET actual == B64UrlDecode(signature_b64)
    IN IF ~actual.ok THEN actual.raised
       ELSE IF actual.bytes = expected_sig THEN "ok" ELSE "differs"

\* The checks on the verified payload, lines 70-107.
ClaimChecks(p, now, leeway, expected_iss, expected_aud) ==
    IF p.shape # "object" THEN Raise("AttributeError", "")
    ELSE IF ExpCheck(p.exp, now, leeway) # "pass"
    THEN Raise("JWTError", ExpCheck(p.exp, now, leeway))
    ELSE IF NbfCheck(p.nbf, now, leeway) # "pass"
    THEN Raise("JWTError", NbfCheck(p.nbf, now, leeway))
    ELSE IF IssAudCheck(p, expected_iss, expected_aud) # "pass"
    THEN Raise("JWTError", IssAudCheck(p, expected_iss, expected_aud))
    ELSE [raised |-> "none", reason |-> "", claims |-> {p}]

\* decode_and_verify_hs256, lines 41-107.
DecodeAndVerifyHs256(token, secret, now, leeway, expected_iss, expected_aud) ==
    IF token.parts # 3 THEN Raise("JWTError", "Invalid JWT format")
    ELSE IF ~token.header.ok \/ ~token.payload.ok
    THEN Raise("JWTError", "Invalid JWT encoding")
    ELSE IF token.header.json = "array" THEN Raise("AttributeError", "")
    ELSE IF token.header.json # "HS256" THEN Raise("JWTError", "Unsupported JWT alg")
    ELSE LET sig == SignatureOk(token.signature,
                                Hmac(secret, token.header, token.payload))
         IN IF sig = "differs" THEN Raise("JWTError", "Invalid JWT signature")
            ELSE IF sig # "ok" THEN Raise(sig, "")
            ELSE ClaimChecks(token.payload.json, now, leeway,
                             expected_iss, expected_aud)

\* Ways of altering one segment of a token, or its number of segments.
Alterations(token) ==
    LET HeaderAlterations(seg) ==
            {Segment(TRUE, seg.json, 1), Segment(TRUE, "none", 0),
             Segment(TRUE, "array", 0), Segment(FALSE, seg.json, 0)} \ {seg}
        PayloadAlterations(seg) ==
            {Segment(TRUE, seg.json, 1), Segment(TRUE, PayloadList[1], 0),
             Segment(TRUE, PayloadList[5], 0), Segment(FALSE, seg.json, 0)} \ {seg}
        SignatureAlterations(sig) ==
            {[sig EXCEPT ![Len(sig)] = (@ + 1) % 64],
             [sig EXCEPT ![1] = (@ + 1) % 64],
             sig \o <<Pad>>, <<Junk>> \o sig, sig \o <<NonAscii>>,
             SubSeq(sig, 1, Len(sig) - 1), SubSeq(sig, 1, 1)} \ {sig}
    IN [segment : {"header"},
        token : {[token EXCEPT !.header = h] : h \in HeaderAlterations(token.header)}]
       \cup [segment : {"payload"},
             token : {[token EXCEPT !.payload = p] :
                         p \in PayloadAlterations(token.payload)}]
       \cup [segment : {"signature"},
             token : {[token EXCEPT !.signature = s] :
                         s \in SignatureAlterations(token.signature)}]

\* The codec alone: a payload is encoded under a key; the token, perhaps
\* altered, is decoded under a key at a time `now` with a leeway, with or
\* without expected iss and aud.
JwtInit ==
    /\ ManagerInit
    /\ clock = 0
    /\ settings = DefaultSettings
    /\ http \in [req : {"jwt"}, stage : {"drawn"},
                 payload : {PayloadList[i] : i \in 1 .. 13},
                 key : {"k1", "k2"}, dkey : {"k1", "k2"},
                 now : {0, 69, 70, 99, 100, 101, 130, 131},
                 leeway : {0, 30}, expected : BOOLEAN, altered : {"none"},
                 token : {{}}, result : {{}}]

JwtFrame ==
    UNCHANGED <<runs, db, proc, clock, epoch, startPc, watchPc, orphanPc,
                stops, settings>>

JwtEncode ==
    /\ http.req = "jwt" /\ http.stage = "drawn"
    /\ http' = [http EXCEPT !.stage = "encoded",
                            !.token = {EncodeHs256(http.payload, http.key)}]
    /\ JwtFrame

JwtAlter ==
    /\ http.req = "jwt" /\ http.stage = "encoded"
    /\ \E token \in http.token : \E a \in Alterations(token) :
          http' = [http EXCEPT !.stage = "altered", !.altered = a.segment,
                               !.token = {a.token}]
    /\ JwtFrame

JwtDecode ==
    /\ http.req = "jwt" /\ http.stage \in {"encoded", "altered"}
    /\ \E token \in http.token :
          http' = [http EXCEPT
                      !.stage = "decoded",
                      !.result = {DecodeAndVerifyHs256(
                                     token, http.dkey, http.now, http.leeway,
                                     IF http.expected THEN {JwtIss} ELSE {},
                                     IF http.expected THEN {JwtAud} ELSE {})}]
    /\ JwtFrame

JwtNext == JwtEncode \/ JwtAlter \/ JwtDecode

JwtSpec == JwtInit /\ [][JwtNext]_vars

\* C23: decoding an unaltered token under the key it was encoded with
\* returns claims equal to the payload; decoding under another key, or
\* decoding a token of which a segment was altered, raises JWTError.
JwtDecoded == http.req = "jwt" /\ http.stage = "decoded"

C23_RoundTripAndTamper ==
    JwtDecoded =>
        \A res \in http.result :
            /\ (http.altered = "none" /\ http.dkey = http.key) =>
                  (res.raised = "none" /\ res.claims = {http.payload})
            /\ (http.altered # "none" \/ http.dkey # http.key) =>
                  res.raised = "JWTError"

\* C24: for a correctly signed, unaltered token whose exp and nbf are
\* integers or missing, decoded without expected iss and aud: it is
\* rejected as expired exactly when now > exp + leeway, as not yet valid
\* exactly when it is not expired and now + leeway < nbf, and not rejected
\* otherwise; a missing exp or nbf rejects nothing.
Expired(p, now, leeway) == p.exp.kind = "int" /\ now > p.exp.num + leeway
NotYet(p, now, leeway) == p.nbf.kind = "int" /\ now + leeway < p.nbf.num

C24_Case ==
    /\ JwtDecoded /\ http.altered = "none" /\ http.dkey = http.key
    /\ http.payload.shape = "object"
    /\ http.payload.exp.kind \in {"int", "absent", "null"}
    /\ http.payload.nbf.kind \in {"int", "absent", "null"}

C24_TimeChecks ==
    C24_Case =>
        \A res \in http.result :
            LET p == http.payload
                expired == Expired(p, http.now, http.leeway)
                notYet == NotYet(p, http.now, http.leeway)
            IN /\ (res.reason = "Token expired") <=> expired
               /\ (res.reason = "Token not yet valid") <=> (~expired /\ notYet)
               /\ ~http.expected => (res.raised = "none" <=> (~expired /\ ~notYet))
               /\ res.raised \in {"none", "JWTError"}

\* C24's case: leeway 30, exp 100, decoded at now = 130 and accepted.
C24_Witness ==
    /\ C24_Case
    /\ http.leeway = 30 /\ http.now = 130
    /\ http.payload.exp = TimeClaim("int", 100)
    /\ \E res \in http.result : res.raised = "none"

\* ----------------------------------------------- the admin token exchange
\* A secret is the sequence of its characters; NonAsciiChar stands for a
\* character outside ASCII.
NonAsciiChar == "U+00E9"

\* hmac.compare_digest on two str: TypeError when one of them has a
\* character outside ASCII, else whether they are equal.
CompareDigest(a, b) ==
    IF \E i \in DOMAIN a : a[i] = NonAsciiChar THEN "TypeError"
    ELSE IF \E i \in DOMAIN b : b[i] = NonAsciiChar THEN "TypeError"
    ELSE IF a = b THEN "equal" ELSE "differ"

\* The key that SCRIPT_JWT_SECRET holds when it is configured.
SecretKey == "k1"

Response(code, token, expires_in) ==
    [code |-> code, token |-> token, expires_in |-> expires_in]

\* issue_admin_token, auth.py lines 75-115, at time `now` with the j-th
\* fresh uuid: the status of the response, the token and expires_in.  An
\* exception nothing handles is a 500.
IssueAdminToken(cfg, secret, now, j) ==
    IF cfg.jwt_admin_secret = <<>> THEN Response("404", {}, {})
    ELSE IF CompareDigest(secret, cfg.jwt_admin_secret) = "TypeError"
    THEN Response("500", {}, {})
    ELSE IF CompareDigest(secret, cfg.jwt_admin_secret) = "differ"
    THEN Response("401", {}, {})
    ELSE IF ~cfg.jwt_secret THEN Response("500", {}, {})
    ELSE Response("200", {EncodeHs256(AdminPayload(now, j), SecretKey)},
                  {JwtExpireSeconds})

\* What the gate's decode makes of a presented token, auth.py lines 41-56.
CredentialOf(token, cfg, now) ==
    LET res == DecodeAndVerifyHs256(token, SecretKey, now,
                                    cfg.jwt_leeway_seconds, {JwtIss}, {JwtAud})
    IN IF res.raised = "none"
       THEN Bearer(TRUE, (CHOOSE c \in res.claims : TRUE).scopes)
       ELSE IF res.raised = "JWTError" THEN Bearer(FALSE, [kind |-> "missing"])
       ELSE MalformedBearer

\* The application with its settings drawn; `http` holds the last exchange
\* (request, presented secret or token, status, time) and the tokens issued
\* so far.
AdminInit ==
    /\ ManagerInit
    /\ clock = 0
    /\ settings \in [jwt_auth : BOOLEAN, jwt_secret : BOOLEAN,
                     jwt_admin_secret : {<<>>, <<"s">>, <<"s", NonAsciiChar>>},
                     jwt_leeway_seconds : {0, 1}]
    /\ http = [req |-> "none", code |-> "none", at |-> 0, presented |-> <<>>,
               token |-> {}, expires_in |-> {}, issued |-> {}, using |-> {},
               required |-> {}]

AdminFrame ==
    UNCHANGED <<runs, db, proc, epoch, startPc, watchPc, orphanPc, stops, settings>>

\* POST /auth/admin/token, app.py lines 285-287.
AdminToken(secret) ==
    /\ Cardinality(http.issued) < MaxTokens
    /\ LET resp == IssueAdminToken(settings, secret, clock,
                                   Cardinality(http.issued) + 1)
       IN http' = [http EXCEPT !.req = "admin token", !.code = resp.code,
                               !.at = clock, !.presented = secret,
                               !.token = resp.token,
                               !.expires_in = resp.expires_in,
                               !.issued = @ \cup resp.token,
                               !.using = {}, !.required = {}]
    /\ UNCHANGED clock
    /\ AdminFrame

\* A request to an operation guarded by `required`, without a token (using
\* = {}) or with a token issued before.
GuardedRequest(using, required) ==
    /\ using \subseteq http.issued
    /\ Cardinality(using) <= 1
    /\ LET cred == IF using = {} THEN NoHeader
                   ELSE CredentialOf(CHOOSE t \in using : TRUE, settings, clock)
       IN http' = [http EXCEPT !.req = "guarded", !.at = clock,
                               !.code = RequireScopes(settings, required, cred),
                               !.using = using, !.required = required,
                               !.presented = <<>>, !.token = {},
                               !.expires_in = {}]
    /\ UNCHANGED clock
    /\ AdminFrame

\* Time passes.
AdminTick ==
    /\ clock < MaxClock
    /\ clock' = clock + 1
    /\ UNCHANGED http
    /\ AdminFrame

AdminNext ==
    \/ \E secret \in {<<>>, <<"s">>, <<"x">>, <<NonAsciiChar>>,
                       <<"s", NonAsciiChar>>} : AdminToken(secret)
    \/ \E using \in SUBSET http.issued : \E required \in SUBSET {"scripts:run", "scripts:read"} :
          GuardedRequest(using, required)
    \/ AdminTick

AdminSpec == AdminInit /\ [][AdminNext]_vars

\* C21 as stated: without a configured admin secret the exchange answers
\* 404 whatever is presented; with one, a presented secret that differs is
\* answered 401 without a token, and a matching one yields a token signed
\* under the secret with sub=admin, scopes=["*"], iat=now, exp=now+
\* expire_seconds, a fresh jti, the configured iss and aud, and expires_in =
\* expire_seconds.
ExchangeDone == http.req = "admin token"

AdminClaims(p, now) ==
    /\ p.sub = "admin"
    /\ p.scopes = [kind |-> "list", items |-> <<"*">>]
    /\ p.iat = TimeClaim("int", now)
    /\ p.exp = TimeClaim("int", now + JwtExpireSeconds)
    /\ p.iss = {JwtIss}
    /\ p.aud = AudClaim("string", <<JwtAud>>)

C21_AdminExchange ==
    ExchangeDone =>
        /\ settings.jwt_admin_secret = <<>> => http.code = "404"
        /\ (settings.jwt_admin_secret # <<>>
              /\ http.presented # settings.jwt_admin_secret) =>
                 (http.code = "401" /\ http.token = {})
        /\ (settings.jwt_admin_secret # <<>>
              /\ http.presented = settings.jwt_admin_secret) =>
                 /\ http.code = "200"
                 /\ http.expires_in = {JwtExpireSeconds}
                 /\ \E t \in http.token :
                       /\ t = EncodeHs256(t.payload.json, SecretKey)
                       /\ AdminClaims(t.payload.json, http.at)
                       /\ \A u \in http.issued \ {t} :
                             u.payload.json.jti # t.payload.json.jti

\* C22: with auth on, a guarded request without a token is answered 401,
\* and one with a token issued by the exchange is admitted, whatever the
\* required scopes, as long as now <= exp + leeway.
C22_IssuedTokenAdmitted ==
    (http.req = "guarded" /\ settings.jwt_auth) =>
        /\ http.using = {} => http.code = "401"
        /\ \A t \in http.using :
              http.at <= t.payload.json.exp.num + settings.jwt_leeway_seconds
                  => http.code = "admit"

\* C22's case: auth is on, the token is used after it was issued, at the
\* last moment exp + leeway, on an operation requiring two scopes.
C22_Witness ==
    /\ http.req = "guarded" /\ settings.jwt_auth
    /\ settings.jwt_leeway_seconds = 1
    /\ http.required = {"scripts:run", "scripts:read"}
    /\ \E t \in http.using :
          /\ http.at = t.payload.json.exp.num + settings.jwt_leeway_seconds
          /\ http.at > t.payload.json.iat.num
    /\ http.code = "admit"

\* ------------------------------------------------- resolve_script alone
\* The first step of start_run on a configured root and a requested path,
\* both drawn: the path is resolved, and the handler raises or goes on.
MaxParts == 2

ScriptPathRequests ==
    LET names == {DotDot, Name("r", ""), Name("s", ""), Name("o", ""),
                  Name("sub", ""), Name("up", ""), Name("a", ".py"),
                  Name("a", ".txt"), Name("c", ".py"), Name("d", ".py"),
                  Name("e", ".py"), Name("dir", ".py"), Name("in", ".py"),
                  Name("out", ".py")}
    IN {Requested(absolute, parts) :
           absolute \in BOOLEAN,
           parts \in UNION {[1 .. n -> names] : n \in 1 .. MaxParts}}

ResolveInit ==
    /\ ManagerInit
    /\ clock = 0
    /\ settings = DefaultSettings
    /\ http \in [req : {"resolve"}, stage : {"drawn"},
                 root : {<<Name("r", "")>>, <<Name("s", "")>>},
                 request : ScriptPathRequests, code : {"pending"}, path : {<<>>}]

ResolveRequest ==
    /\ http.req = "resolve" /\ http.stage = "drawn"
    /\ http' = [http EXCEPT
                   !.stage = "resolved",
                   !.code = ResolveStatus(http.root, http.request),
                   !.path = ResolveScriptPath(http.root, http.request).path]
    /\ UNCHANGED <<runs, db, proc, clock, epoch, startPc, watchPc, orphanPc,
                   stops, settings>>

ResolveSpec == ResolveInit /\ [][ResolveRequest]_vars

\* C25: a path that resolve_script returns lies under the canonical root,
\* has the suffix .py and is an existing regular file; a request that leads
\* out of the root (by "..", as an absolute path, through a symbolic link)
\* is refused and the handler does not reach start().
CanonicalRoot == RealPath(<<>>, http.root)

LeadsOut ==
    ~IsRelativeTo(RealPath(<<>>, Join(CanonicalRoot, http.request)), CanonicalRoot)

C25_ResolveStaysUnderRoot ==
    (http.req = "resolve" /\ http.stage = "resolved") =>
        /\ http.code = "ok" =>
              /\ IsRelativeTo(http.path, CanonicalRoot)
              /\ http.path # CanonicalRoot
              /\ http.path[Len(http.path)].ext = ".py"
              /\ http.path \in RegularFiles
        /\ LeadsOut => (http.code = "400" /\ ~ReachesStart(http.code))
        /\ http.request \in
              {Requested(FALSE, <<DotDot, Name("o", ""), Name("e", ".py")>>),
               Requested(FALSE, <<DotDot, Name("e", ".py")>>),
               Requested(TRUE, <<Name("o", ""), Name("e", ".py")>>),
               Requested(FALSE, <<Name("out", ".py")>>),
               Requested(FALSE, <<Name("up", ""), Name("e", ".py")>>)}
              => http.code = "400"

\* C25's case: the root is configured through a link, the request names a
\* link under the root pointing to a .py file outside it, and is refused.
C25_Witness ==
    /\ http.req = "resolve" /\ http.stage = "resolved"
    /\ http.root = <<Name("s", "")>>
    /\ http.request = Requested(FALSE, <<Name("out", ".py")>>)
    /\ http.code = "400"

\* ------------------------------------------------------------- read_logs
\* A log file is the sequence of its bytes; text is the sequence of its
\* code points.  The bytes here are "a" and the two bytes of U+00E9.
ReplacementChar == 65533

\* bytes.decode("utf-8", errors="replace") on these bytes: a lead byte with
\* its continuation byte is one character, a lead byte without one or a
\* continuation byte alone is replaced.
RECURSIVE Utf8Decode(_)
Utf8Decode(data) ==
    IF data = <<>> THEN <<>>
    ELSE IF data[1] < 128 THEN <<data[1]>> \o Utf8Decode(Tail(data))
    ELSE IF data[1] >= 192 /\ Len(data) >= 2 /\ data[2] \in 128 .. 191
    THEN <<(data[1] - 192) * 64 + (data[2] - 128)>>
         \o Utf8Decode(SubSeq(data, 3, Len(data)))
    ELSE <<ReplacementChar>> \o Utf8Decode(Tail(data))

\* _tail_text_file, runner.py lines 438-450; a missing file is the empty
\* set, an existing one the set of its content.
TailTextFile(file, tail_bytes) ==
    IF file = {} THEN <<>>
    ELSE LET content == CHOOSE c \in file : TRUE
             size == Len(content)
             position == IF tail_bytes > 0 THEN (IF size > tail_bytes THEN size - tail_bytes ELSE 0) ELSE 0
         IN Utf8Decode(SubSeq(content, position + 1, size))

\* read_logs, lines 421-435, on an existing run: the text under each
\* selected key, the empty set under a key that is not selected.
ReadLogs(stdout_file, stderr_file, stream, tail_bytes) ==
    LET tail == IF tail_bytes > 0 THEN tail_bytes ELSE 0
    IN [stdout |-> IF stream \in {"stdout", "both"}
                   THEN {TailTextFile(stdout_file, tail)} ELSE {},
        stderr |-> IF stream \in {"stderr", "both"}
                   THEN {TailTextFile(stderr_file, tail)} ELSE {}]

MaxLogSize == 3
LogsInit ==
    /\ ManagerInit
    /\ clock = 0
    /\ settings = DefaultSettings
    /\ http \in [req : {"logs"}, stage : {"drawn"},
                 stdout_file : {{}} \cup {{content} : content \in
                     UNION {[1 .. n -> {97, 195, 169}] : n \in 0 .. MaxLogSize}},
                 stderr_file : {{}, {<<97>>}, {<<97, 195, 169>>}},
                 stream : {"stdout", "stderr", "both"},
                 tail_bytes : {-1} \cup (0 .. MaxLogSize + 1), logs : {[stdout |-> {}, stderr |-> {}]}]

GetLogs ==
    /\ http.req = "logs" /\ http.stage = "drawn"
    /\ http' = [http EXCEPT
                   !.stage = "read",
                   !.logs = ReadLogs(http.stdout_file, http.stderr_file,
                                     http.stream, http.tail_bytes)]
    /\ UNCHANGED <<runs, db, proc, clock, epoch, startPc, watchPc, orphanPc,
                   stops, settings>>

LogsSpec == LogsInit /\ [][GetLogs]_vars

\* C26: read_logs returns, for each selected stream whose file exists, the
\* last min(size, tail_bytes) bytes of the file as text: nothing when
\* tail_bytes is 0, the whole file when tail_bytes exceeds its size.
LastBytes(file, tail_bytes) ==
    LET content == CHOOSE c \in file : TRUE
        size == Len(content)
        count == IF tail_bytes < size THEN tail_bytes ELSE size
    IN SubSeq(content, size - count + 1, size)

C26_Tail(file, text) ==
    (file # {} /\ http.tail_bytes >= 0) =>
        /\ text = Utf8Decode(LastBytes(file, http.tail_bytes))
        /\ http.tail_bytes = 0 => text = <<>>

C26_TailOfLogs ==
    (http.req = "logs" /\ http.stage = "read") =>
        /\ (http.stream \in {"stdout", "both"}) <=> (http.logs.stdout # {})
        /\ (http.stream \in {"stderr", "both"}) <=> (http.logs.stderr # {})
        /\ \A text \in http.logs.stdout : C26_Tail(http.stdout_file, text)
        /\ \A text \in http.logs.stderr : C26_Tail(http.stderr_file, text)

\* ------------------------------------------------------- POST /runs/all
\* run_all_scripts, app.py lines 161-233: one snapshot of the active runs is
\* taken, then every known script is resolved, skipped if the snapshot has
\* a run of it, refused if the cwd leaves the scripts root, and else
\* started.  The handler is suspended only inside start(), in the spawn; its
\* segments are the one from the request to the first spawn and those from
\* one spawn to the next.  start() returns the record also when the spawn
\* failed, so the script is reported as started.
KnownScripts == <<"a", "b">>

MaxRunAllRuns == 3
RunAllIds == 1 .. MaxRunAllRuns

\* The loop from its current script to the next call of start(): the
\* scripts passed over with their results, and what is left, the script to
\* start first.  `active` holds argv[2] of the runs of the snapshot.  Of
\* the cwd only is_relative_to is tested (lines 201-216): "../out" is
\* refused, "file", which is no directory, is not.
RECURSIVE Advance(_, _, _, _, _)
Advance(todo, duplicate, cwd, active, results) ==
    IF todo = <<>> THEN [todo |-> <<>>, results |-> results]
    ELSE IF ResolveScript(Head(todo)) # "ok"
    THEN Advance(Tail(todo), duplicate, cwd, active,
                 Append(results, [script |-> Head(todo), status |-> "error"]))
    ELSE IF ~duplicate /\ AbsoluteStr(Head(todo)) \in active
    THEN Advance(Tail(todo), duplicate, cwd, active,
                 Append(results, [script |-> Head(todo), status |-> "skipped"]))
    ELSE IF cwd = "../out"
    THEN Advance(Tail(todo), duplicate, cwd, active,
                 Append(results, [script |-> Head(todo), status |-> "error"]))
    ELSE [todo |-> todo, results |-> results]

NoRunAll ==
    [pc |-> "idle", duplicate |-> FALSE, cwd |-> "", active |-> {},
     todo |-> <<>>, results |-> <<>>, waiting |-> 0]

RunAllInit ==
    /\ runs = <<>>
    /\ db = <<>>
    /\ proc = [r \in RunAllIds |-> [st |-> "none", code |-> None, sig |-> 0]]
    /\ epoch = 0
    /\ startPc = [r \in RunAllIds |-> "idle"]
    /\ watchPc = [r \in RunAllIds |-> "none"]
    /\ orphanPc = [r \in RunAllIds |-> "none"]
    /\ stops = [c \in StopIds |-> NoStop]
    /\ clock = MaxClock
    /\ settings = [jwt_auth |-> TRUE, jwt_secret |-> TRUE]
    /\ http = [req |-> "none", code |-> "none", nodup |-> {}, all |-> NoRunAll]

\* The request is handled up to its first spawn, or to its end when no
\* script is started.
RunAllBegin(duplicate, cwd) ==
    /\ http.all.pc = "idle"
    /\ LET active == IF duplicate THEN {}
                     ELSE {runs[r].argv[3] : r \in ListActiveRuns(runs)}
           adv == Advance(KnownScripts, duplicate, cwd, active, <<>>)
       IN IF adv.todo = <<>>
          THEN /\ http' = [http EXCEPT !.req = "POST /runs/all",
                                       !.all = [NoRunAll EXCEPT
                                                   !.pc = "done",
                                                   !.duplicate = duplicate,
                                                   !.cwd = cwd,
                                                   !.active = active,
                                                   !.results = adv.results]]
               /\ UNCHANGED <<runs, db, proc, clock, epoch, startPc, watchPc,
                              orphanPc, stops, settings>>
          ELSE \E r \in RunAllIds :
                  /\ StartSegment(r, Head(adv.todo), <<>>)
                  /\ http' = [http EXCEPT !.req = "POST /runs/all",
                                          !.all = [pc |-> "spawn",
                                                   duplicate |-> duplicate,
                                                   cwd |-> cwd,
                                                   active |-> active,
                                                   todo |-> adv.todo,
                                                   results |-> adv.results,
                                                   waiting |-> r]]
                  /\ UNCHANGED settings

\* create_subprocess_exec returns to the start() that the handler awaits,
\* or raises, as it must for a cwd that is no directory: start() ends as in
\* StartSpawned or StartSpawnFails, the handler notes the script as started
\* and goes on to the next call of start(), or to its end.
RunAllResume(spawned) ==
    /\ http.all.pc = "spawn"
    /\ spawned => http.all.cwd # "file"
    /\ LET r == http.all.waiting
           rec == IF spawned THEN Spawned(runs[r], PidOf(r), UtcNow)
                  ELSE SpawnFailed(runs[r], UtcNow)
           noted == Append(http.all.results,
                           [script |-> Head(http.all.todo), status |-> "started"])
           adv == Advance(Tail(http.all.todo), http.all.duplicate, http.all.cwd,
                          http.all.active, noted)
           runs1 == [runs EXCEPT ![r] = rec]
           db1 == SaveRunSync(db, r, rec)
           proc1 == IF spawned
                    THEN [proc EXCEPT ![r] = [st |-> "alive", code |-> None, sig |-> 0]]
                    ELSE proc
           watchPc1 == IF spawned THEN [watchPc EXCEPT ![r] = "wait"] ELSE watchPc
       IN /\ startPc[r] = "spawn"
          /\ proc' = proc1
          /\ watchPc' = watchPc1
          /\ clock' = Tick
          /\ IF adv.todo = <<>>
             THEN /\ runs' = runs1
                  /\ db' = db1
                  /\ startPc' = [startPc EXCEPT ![r] = "done"]
                  /\ http' = [http EXCEPT !.all.pc = "done", !.all.todo = <<>>,
                                          !.all.results = adv.results,
                                          !.all.waiting = 0]
             ELSE \E q \in RunAllIds :
                     /\ q \notin DOMAIN runs
                     /\ \A o \in RunAllIds : o < q => o \in DOMAIN runs
                     /\ LET started == NewRecord(q, Head(adv.todo), <<>>, UtcNow)
                        IN /\ runs' = Put(runs1, q, started)
                           /\ db' = SaveRunSync(db1, q, started)
                     /\ startPc' = [startPc EXCEPT ![r] = "done", ![q] = "spawn"]
                     /\ http' = [http EXCEPT !.all.todo = adv.todo,
                                             !.all.results = adv.results,
                                             !.all.waiting = q]
    /\ UNCHANGED <<epoch, orphanPc, stops, settings>>

\* The start() calls of other requests go on by themselves; the one the
\* run-all handler awaits resumes in RunAllResume.
RunAllNext ==
    \/ \E duplicate \in BOOLEAN : \E cwd \in {"", "sub", "../out", "file"} :
          RunAllBegin(duplicate, cwd)
    \/ \E spawned \in BOOLEAN : RunAllResume(spawned)
    \/ \E s \in Scripts :
          PostRuns([cred |-> RunToken, script |-> s, cwd |-> "", duplicate |-> FALSE])
    \/ \E r \in RunAllIds : http.all.waiting # r /\ StartSpawned(r)
    \/ \E r \in RunAllIds : http.all.waiting # r /\ StartSpawnFails(r)
    \/ \E r \in RunAllIds : \E code \in OwnCodes : ChildExit(r, code)
    \/ \E r \in RunAllIds : WatchObserve(r)

RunAllSpec == RunAllInit /\ [][RunAllNext]_vars

\* C27: POST /runs/all with duplicate=false never starts a script of which
\* a run is active, with argv[2] the script's resolved path, at the moment
\* of that start.
C27_RunAllNoDuplicate ==
    [][\A q \in RunAllIds :
          ( /\ http'.all # http.all
            /\ ~http'.all.duplicate
            /\ q \in DOMAIN runs' /\ q \notin DOMAIN runs )
          => \A o \in DOMAIN runs :
                runs'[o].status \in ActiveStatuses =>
                    runs'[o].argv[3] # runs'[q].argv[3]]_vars

\* --------------------------------------------------- POST /runs/stop_all
\* stop_all_runs, app.py lines 235-250: stop() is awaited for every run of
\* one snapshot of the active runs, in the registry's order.  The handler is
\* suspended only inside stop(), in the grace wait of a run with a child
\* handle; without a restart no run is an adopted orphan.

\* What stop() leaves of record rec when it does not suspend: the run is not
\* stoppable, has no handle yet, or the signal call raised.
StopAtOnce(rec, outcome) ==
    IF ~Stoppable(rec.status) THEN rec
    ELSE IF ~rec.process THEN [rec EXCEPT !.status = "stopping"]
    ELSE IF outcome = "eperm" THEN SignalFailed([rec EXCEPT !.status = "stopping"])
    ELSE [rec EXCEPT !.status = "stopping"]

\* The rows after stop()'s saves: none when the run is not stoppable, one
\* of the stopping record, and one more after a failed signal.
StopSaves(rows, r, rec, outcome) ==
    IF ~Stoppable(rec.status) THEN rows
    ELSE LET stopping == [rec EXCEPT !.status = "stopping"]
             saved == SaveRunSync(rows, r, stopping)
         IN IF rec.process /\ outcome = "eperm"
            THEN SaveRunSync(saved, r, SignalFailed(stopping))
            ELSE saved

\* The loop from its current run to the next suspension: m holds the
\* registry, the rows and the processes, outcomes what the signal call does
\* for each run.
RECURSIVE Sweep(_, _, _, _)
Sweep(todo, m, results, outcomes) ==
    IF todo = <<>> THEN [todo |-> <<>>, m |-> m, results |-> results]
    ELSE LET r == Head(todo)
             rec == m.runs[r]
         IN \* stop() suspends in the grace wait
            IF Stoppable(rec.status) /\ rec.process /\ outcomes[r] = "ok"
            THEN LET stopping == [rec EXCEPT !.status = "stopping"]
                 IN [todo |-> todo,
                     m |-> [runs |-> [m.runs EXCEPT ![r] = stopping],
                            db |-> SaveRunSync(m.db, r, stopping),
                            proc |-> [m.proc EXCEPT ![r] = Deliver(@, SIGTERM)]],
                     results |-> results]
            ELSE LET left == StopAtOnce(rec, outcomes[r])
                 IN Sweep(Tail(todo),
                          [runs |-> [m.runs EXCEPT ![r] = left],
                           db |-> StopSaves(m.db, r, rec, outcomes[r]),
                           proc |-> m.proc],
                          Append(results, [run_id |-> r, status |-> left.status]),
                          outcomes)

\* self._runs.values() restricted to the active runs: insertion order.
RECURSIVE ActiveInOrder(_, _)
ActiveInOrder(rs, n) ==
    IF n = 0 THEN <<>>
    ELSE IF n \in DOMAIN rs /\ rs[n].status \in ActiveStatuses
    THEN Append(ActiveInOrder(rs, n - 1), n)
    ELSE ActiveInOrder(rs, n - 1)

StopAllInit ==
    /\ ManagerInit
    /\ clock = MaxClock
    /\ settings = [jwt_auth |-> TRUE, jwt_secret |-> TRUE]
    /\ http = [req |-> "none", code |-> "none", nodup |-> {},
               all |-> [pc |-> "idle", snapshot |-> <<>>, todo |-> <<>>,
                        results |-> <<>>]]

StopAllMoves(snapshot, swept) ==
    /\ runs' = swept.m.runs
    /\ db' = swept.m.db
    /\ proc' = swept.m.proc
    /\ http' = [http EXCEPT !.req = "POST /runs/stop_all",
                            !.all = [pc |-> IF swept.todo = <<>> THEN "done"
                                            ELSE "grace",
                                     snapshot |-> snapshot,
                                     todo |-> swept.todo,
                                     results |-> swept.results]]

\* The request is handled up to its first grace wait, or to its end.
StopAllBegin(outcomes) ==
    /\ http.all.pc = "idle"
    /\ \A r \in RunIds : outcomes[r] \in KillpgOutcomes(r)
    /\ LET snapshot == ActiveInOrder(runs, MaxRuns)
       IN StopAllMoves(snapshot,
                       Sweep(snapshot, [runs |-> runs, db |-> db, proc |-> proc],
                             <<>>, outcomes))
    /\ UNCHANGED <<clock, epoch, startPc, watchPc, orphanPc, stops, settings>>

\* The grace wait of the run the handler waits for ends, with the child's
\* exit or with the timeout and SIGKILL; stop() returns the record and the
\* loop goes on to its next grace wait, or to its end.
StopAllResume(exited, outcomes) ==
    /\ http.all.pc = "grace"
    /\ \A r \in RunIds : outcomes[r] \in KillpgOutcomes(r)
    /\ LET r == Head(http.all.todo)
           rec == IF exited THEN GraceExited(runs[r], Get(proc[r].code), UtcNow)
                  ELSE runs[r]
           m == [runs |-> [runs EXCEPT ![r] = rec],
                 db |-> IF exited THEN SaveRunSync(db, r, rec) ELSE db,
                 proc |-> IF exited THEN proc
                          ELSE Signalled(r, SIGKILL, outcomes[r])]
       IN /\ exited <=> proc[r].st = "dead"
          /\ StopAllMoves(http.all.snapshot,
                          Sweep(Tail(http.all.todo), m,
                                Append(http.all.results, [run_id |-> r, status |-> rec.status]),
                                outcomes))
          /\ clock' = IF exited THEN Tick ELSE clock
    /\ UNCHANGED <<epoch, startPc, watchPc, orphanPc, stops, settings>>

StopAllNext ==
    \/ \E outcomes \in [RunIds -> {"ok", "eperm", "esrch"}] : StopAllBegin(outcomes)
    \/ \E exited \in BOOLEAN :
          \E outcomes \in [RunIds -> {"ok", "eperm", "esrch"}] :
              StopAllResume(exited, outcomes)
    \/ \E s \in Scripts :
          PostRuns([cred |-> RunToken, script |-> s, cwd |-> "", duplicate |-> TRUE])
    \/ \E r \in RunIds : StartSpawned(r)
    \/ \E r \in RunIds : StartSpawnFails(r)
    \/ \E r \in RunIds : \E code \in OwnCodes : ChildExit(r, code)
    \/ \E r \in RunIds : WatchObserve(r)

StopAllSpec == StopAllInit /\ [][StopAllNext]_vars

\* C28: when POST /runs/stop_all returns, its results have exactly one entry
\* for each run that was active when the request was handled, and none of
\* those runs has status starting or running.
C28_StopAllStopsAll ==
    [][(http.all.pc # "done" /\ http'.all.pc = "done") =>
          /\ Len(http'.all.results) = Len(http'.all.snapshot)
          /\ \A i \in DOMAIN http'.all.snapshot :
                /\ http'.all.results[i].run_id = http'.all.snapshot[i]
                /\ runs'[http'.all.snapshot[i]].status \notin {"starting", "running"}]_vars

\* C29: a record gets one of the statuses succeeded, failed and stopped only
\* in a step of its watcher, _watch, after proc.wait(); never in start(),
\* stop() or the reconciliation.
C29_OnlyWatcherWritesTerminal ==
    [][\A r \in DOMAIN runs' :
          ( /\ runs'[r].status \in {"succeeded", "failed", "stopped"}
            /\ r \in DOMAIN runs => runs[r].status # runs'[r].status )
          => r \in DOMAIN runs /\ watchPc[r] = "wait" /\ watchPc'[r] = "done"]_vars

\* C30: a path that resumes after a suspension changes a record's status
\* only if the status is still the one the path left, or one its own test
\* under the lock admits: start after the spawn finds starting, stop after
\* the grace wait or the liveness poll finds stopping, the watcher after
\* wait finds running or what stop made of it, the orphan re-watcher after
\* its sleep finds an active status.
C30_ResumedPathsRecheck ==
    [][\A r \in DOMAIN runs :
          (r \in DOMAIN runs' /\ runs'[r].status # runs[r].status) =>
             /\ (startPc[r] = "spawn" /\ startPc'[r] = "done")
                   => runs[r].status = "starting"
             /\ (watchPc[r] = "wait" /\ watchPc'[r] = "done")
                   => runs[r].status \in {"running", "stopping", "stopped"}
             /\ \A c \in StopIds :
                   ( /\ stops[c].pc \in {"grace", "poll"}
                     /\ stops[c].run = r
                     /\ stops'[c].pc = "done" )
                   => runs[r].status = "stopping"
             /\ (orphanPc[r] = "poll" /\ orphanPc'[r] = "done")
                   => runs[r].status \in ActiveStatuses]_vars

\* ------------------------------------------------- start and its log files
\* start() with the two log files it opens before the spawn (lines 242-243).
\* http.open holds, for each run, the streams whose file object is still
\* open.  A file object that start() leaves without close() when it returns
\* or raises is closed by its finalizer; when that runs is up to the Python
\* implementation (`finalized`: it has run by the time start() is left).
FilesInit ==
    /\ ManagerInit
    /\ clock = 0
    /\ settings = DefaultSettings
    /\ http = [req |-> "none", open |-> [r \in RunIds |-> {}]]

\* start() up to its await of create_subprocess_exec, or to the OSError of
\* an open(): `opened` of the two files are opened.
StartOpens(r, s, opened, finalized) ==
    /\ r \notin DOMAIN runs
    /\ \A q \in RunIds : q < r => q \in DOMAIN runs
    /\ startPc[r] = "idle"
    /\ LET rec == NewRecord(r, s, <<>>, UtcNow)
       IN /\ runs' = Put(runs, r, rec)
          /\ db' = SaveRunSync(db, r, rec)
    /\ clock' = Tick
    /\ startPc' = [startPc EXCEPT ![r] = IF opened = 2 THEN "spawn" ELSE "raised"]
    /\ http' = [http EXCEPT !.open[r] =
                   IF opened = 2 THEN {"stdout", "stderr"}
                   ELSE IF opened = 1 /\ ~finalized THEN {"stdout"}
                   ELSE {}]
    /\ UNCHANGED <<proc, epoch, watchPc, orphanPc, stops, settings>>

\* create_subprocess_exec returns or raises: start() ends.  Its except
\* branch closes stdout_file (line 257) and no other file.
SpawnEnds(r, spawned, finalized) ==
    /\ startPc[r] = "spawn"
    /\ LET rec == IF spawned THEN Spawned(runs[r], PidOf(r), UtcNow)
                  ELSE SpawnFailed(runs[r], UtcNow)
       IN /\ runs' = [runs EXCEPT ![r] = rec]
          /\ db' = SaveRunSync(db, r, rec)
    /\ proc' = IF spawned
               THEN [proc EXCEPT ![r] = [st |-> "alive", code |-> None, sig |-> 0]]
               ELSE proc
    /\ watchPc' = IF spawned THEN [watchPc EXCEPT ![r] = "wait"] ELSE watchPc
    /\ clock' = Tick
    /\ startPc' = [startPc EXCEPT ![r] = "done"]
    /\ http' = [http EXCEPT !.open[r] =
                   IF spawned THEN @
                   ELSE IF finalized THEN {}
                   ELSE @ \ {"stdout"}]
    /\ UNCHANGED <<epoch, orphanPc, stops, settings>>

\* _watch after proc.wait(): the terminal transition, then _close_files.
WatchCloses(r) ==
    /\ watchPc[r] = "wait"
    /\ proc[r].st = "dead"
    /\ LET rec == Watched(runs[r], Get(proc[r].code), UtcNow)
       IN /\ runs' = [runs EXCEPT ![r] = rec]
          /\ db' = SaveRunSync(db, r, rec)
    /\ clock' = Tick
    /\ watchPc' = [watchPc EXCEPT ![r] = "done"]
    /\ http' = [http EXCEPT !.open[r] = {}]
    /\ UNCHANGED <<proc, epoch, startPc, orphanPc, stops, settings>>

FilesNext ==
    \/ \E r \in RunIds : \E s \in Scripts : \E opened \in 0 .. 2 :
          \E finalized \in BOOLEAN : StartOpens(r, s, opened, finalized)
    \/ \E r \in RunIds : \E spawned \in BOOLEAN : \E finalized \in BOOLEAN :
          SpawnEnds(r, spawned, finalized)
    \/ \E r \in RunIds : \E code \in OwnCodes : ChildExit(r, code)
    \/ \E r \in RunIds : WatchCloses(r)

FilesSpec == FilesInit /\ [][FilesNext]_vars

\* C31: a run whose spawn failed holds no open log file once start() has
\* returned: both files were closed.
C31_SpawnFailureClosesFiles ==
    \A r \in DOMAIN runs :
        (startPc[r] = "done" /\ ~runs[r].process /\ runs[r].status = "failed")
            => http.open[r] = {}

\* C37: once a start() call has ended, by returning or by raising, the
\* record it inserted is not starting any more, neither in the registry nor
\* in the durable store.
C37_NoStartingAfterStart ==
    \A r \in DOMAIN runs :
        startPc[r] \in {"done", "raised"} =>
            /\ runs[r].status # "starting"
            /\ r \in DOMAIN db => db[r].status # "starting"

\* ------------------------------------------- a reloaded row, then requests
\* The state directory as in ReloadSpec, and after the construction the
\* calls an application makes: stop(), and POST /runs with duplicate=false
\* for the stored record's script (JWT auth is off).
CorruptNext ==
    \/ \E r \in RunIds : PersistRecord(r)
    \/ Restart
    \/ \E c \in StopIds : \E r \in RunIds : \E outcome \in Outcomes :
          StopCall(c, r, outcome)
    \/ PostRuns([cred |-> NoHeader, script |-> "a", cwd |-> "", duplicate |-> FALSE])

CorruptSpec == ReloadInit /\ [][CorruptNext]_vars

\* C32: a row whose status is none of the seven known ones is never erased
\* or rewritten; the construction loads it as it is and schedules no
\* re-watcher for it; it is never listed as active; stop() on it returns the
\* record, changes nothing and sends no signal; and it makes no difference
\* to the duplicate guard of POST /runs.
C32_UnknownStatusIsTerminal ==
    [][\A r \in DOMAIN db :
          db[r].status \notin ActiveStatuses \cup TerminalStatuses =>
             /\ r \in DOMAIN db' /\ db'[r] = db[r]
             /\ epoch' = epoch + 1 =>
                   /\ r \in DOMAIN runs'
                   /\ Row(runs'[r]) = db[r]
                   /\ orphanPc'[r] = "none"
             /\ r \in DOMAIN runs' => r \notin ListActiveRuns(runs')
             /\ \A c \in StopIds :
                   (stops[c].pc = "idle" /\ stops'[c].pc # "idle" /\ stops'[c].run = r)
                   => /\ runs' = runs /\ proc' = proc
                      /\ stops'[c].pc = "done"
                      /\ stops'[c].ret = Some(runs[r])
             /\ AlreadyRunning(runs, "a")
                   <=> AlreadyRunning([q \in DOMAIN runs \ {r} |-> runs[q]], "a")]_vars

\* C32's case: the row was reloaded with its unknown status, a stop() call
\* on it has returned, and a duplicate=false start of its script was accepted.
C32_Witness ==
    /\ epoch = 1
    /\ 1 \in DOMAIN db /\ db[1].status = "unknown"
    /\ 1 \in DOMAIN runs /\ runs[1].status = "unknown" /\ runs[1].pid # None
    /\ proc[1].st = "alive"
    /\ \E c \in StopIds : stops[c].pc = "done" /\ stops[c].run = 1
    /\ 2 \in DOMAIN runs /\ runs[2].script = "a" /\ 2 \in http.nodup

\* C33: POST /runs/all with a cwd that leaves the scripts root ("../out")
\* or is no existing directory ("file") creates no record, and every
\* script's result has status error.
C33_RunAllCwdRule ==
    (http.req = "POST /runs/all" /\ CwdCheck(http.all.cwd) # "ok") =>
        /\ http.all.pc = "done"
        /\ Len(http.all.results) = Len(KnownScripts)
        /\ \A i \in DOMAIN http.all.results : http.all.results[i].status = "error"

\* C34: a record with status succeeded, failed, stopped or terminated keeps
\* that status in every step of the watcher, of stop() and of the orphan
\* re-watcher.
C34_TerminalAbsorbing ==
    [][\A r \in DOMAIN runs :
          (runs[r].status \in TerminalStatuses /\ r \in DOMAIN runs')
             => runs'[r].status = runs[r].status]_vars

\* C35: a record never goes from stopping back to running or starting, nor
\* from running back to starting.
C35_NoStepBack ==
    [][\A r \in DOMAIN runs :
          r \in DOMAIN runs' =>
             /\ runs[r].status = "stopping"
                   => runs'[r].status \notin {"running", "starting"}
             /\ runs[r].status = "running" => runs'[r].status # "starting"]_vars

\* ------------------------------------------------ stopping runs come to an end

\* C36: whenever stop() moves a run to stopping, the run eventually reaches a
\* terminal status, the event loop being fair and a process that received
\* SIGKILL dying.  The cases left out are the ones the claim's assumptions
\* leave out: the server is restarted in between, or the kernel refused the
\* SIGKILL of a stop call.  Violated: a run stopped while start() awaits the
\* spawn is set back to running by start(), no signal is ever sent, and the
\* run lasts as long as its child does.
C36_StoppingEnds ==
    \A r \in RunIds : \A e \in 0 .. MaxRestarts :
        (/\ r \in DOMAIN runs
         /\ runs[r].status = "stopping"
         /\ epoch = e
         /\ \E c \in StopIds : /\ stops[c].run = r
                                /\ stops[c].epoch = e
                                /\ stops[c].kind \in {"nohandle", "handle", "orphan"})
            ~> \/ epoch # e
               \/ /\ r \in DOMAIN runs
                  /\ runs[r].status \in {"succeeded", "failed", "stopped", "terminated"}
               \/ \E c \in StopIds : /\ stops[c].run = r
                                      /\ stops[c].epoch = e
                                      /\ stops[c].pc = "done"
                                      /\ stops[c].kind \in {"handle", "orphan"}
                                      /\ stops[c].kills = 0
                                      /\ ~stops[c].sawExit

\* C38: a run adopted after a restart with the persisted status stopping and
\* a live process can still be stopped: a stop() call on it, no other stop()
\* call of this server life being under way, sends a termination signal.
\* Violated: stop() returns the record of a stopping run as it is.
C38_AdoptedStoppingCanBeStopped ==
    [][\A c \in StopIds : \A r \in DOMAIN runs :
          (/\ stops[c].pc = "idle"
           /\ stops'[c].pc # "idle"
           /\ stops'[c].run = r
           /\ epoch > 0
           /\ runs[r].status = "stopping"
           /\ ~runs[r].process
           /\ runs[r].pid # None
           /\ IsProcessAlive(r)
           /\ StopsSinceRestart(r) = {})
              => /\ stops'[c].term
                 /\ proc'[r].sig \in {SIGTERM, SIGKILL}]_vars

\* C39: finished_at is written at most once per record: once it is set it
\* never changes.  Violated: the watcher and the grace-window exit of stop()
\* both stamp it, and so do the re-watcher and the orphan branch of stop().
C39_FinishedAtWrittenOnce ==
    [][\A r \in DOMAIN runs :
          (r \in DOMAIN runs' /\ runs[r].finished_at # None)
              => runs'[r].finished_at = runs[r].finished_at]_vars

\* ------------------------------------------------- stop calls side by side

\* C40: while a stop() call on a run is suspended in its grace wait or its
\* liveness poll, every other stop() call on that run returns the record as
\* it is, sends no signal and changes no record, row or process; so the stop
\* calls on one run send SIGTERM at most once and SIGKILL at most once.
C40_Step(c) ==
    (stops[c].pc = "idle" /\ stops'[c].pc # "idle") =>
        LET r == stops'[c].run
        IN (\E d \in StopIds : stops[d].pc \in {"grace", "poll"} /\ stops[d].run = r) =>
              /\ r \in DOMAIN runs
              /\ stops'[c].pc = "done"
              /\ stops'[c].ret = Some(runs[r])
              /\ ~stops'[c].term /\ stops'[c].kills = 0
              /\ UNCHANGED <<runs, db, proc>>

C40_OnceEach ==
    \A c, d \in StopIds :
        (c # d /\ stops[c].pc # "idle" /\ stops[d].pc # "idle"
             /\ stops[c].run = stops[d].run) =>
            /\ ~(stops[c].term /\ stops[d].term)
            /\ stops[c].kills + stops[d].kills <= 1

C40_ConcurrentStops ==
    /\ [][\A c \in StopIds : C40_Step(c)]_vars
    /\ [](C40_OnceEach)

\* C40's case: a stop() call is suspended after its SIGTERM, and another
\* stop() call on the same run has returned the stopping record untouched.
C40_Witness ==
    \E c, d \in StopIds :
        /\ stops[c].pc \in {"grace", "poll"}
        /\ stops[c].term
        /\ stops[d].pc = "done" /\ stops[d].kind = "noop"
        /\ stops[d].run = stops[c].run
        /\ stops[d].epoch = stops[c].epoch
        /\ Get(stops[d].ret).status = "stopping"
        /\ ~stops[d].term /\ stops[d].kills = 0

====
